---------------------------- MODULE Spec2Model ----------------------------
(***************************************************************************)
(* A model of the weather-model data generators:                           *)
(*   generate_weather_data.py  WeatherDataGenerator (stations with upsert, *)
(*                             observations, duplicate clean-up)           *)
(*   weather_generator.py      WeatherGenerator (stations, observations,   *)
(*                             fire records, plain inserts)                *)
(*   batch_data_generator.py   the batch commands (historical, clear, ...) *)
(*   generate_data.py          clear_data                                  *)
(*                                                                         *)
(* Representation.                                                         *)
(*  - A Python str that the code inspects character by character (station *)
(*    names, station ids, WKT locations) is a tuple of one-character       *)
(*    strings; a str the code only copies is a TLA+ string.                *)
(*  - A float is a fixed-point integer: degrees of longitude/latitude and  *)
(*    degrees Celsius in units of 1/10000, probabilities in 1/100.         *)
(*  - A datetime is a number of hours since 2024-01-01T00:00; a date is a  *)
(*    number of days since 2024-01-01.                                     *)
(*  - The pseudo-random source is a function of a seed and of the place of *)
(*    the draw; a run draws its seed from 0 .. NumSeeds-1.                  *)
(*  - The BigQuery tables are bags of rows; every call on the client may   *)
(*    raise, as chosen by the failure plan of the operation.               *)
(***************************************************************************)
EXTENDS Integers, Sequences, FiniteSets, Bags, TLC

VARIABLES
    clock,                \* datetime.now(), in hours
    weather_stations,     \* table weather_stations: a bag of rows
    weather_observations, \* table weather_observations: a bag of rows
    fire_records,         \* table fire_records: a bag of rows
    last,                 \* what the last operation was given, did and returned
    generated,            \* history: the identities station generation has produced
    upserts               \* the station upserts that run side by side, step by step

vars == <<clock, weather_stations, weather_observations, fire_records, last, generated,
          upserts>>

(***************************************************************************)
(* Bounds of the model.                                                    *)
(***************************************************************************)
NumSeeds == 3        \* seeds of the random source
MaxCount == 2        \* largest requested number of stations
MaxOps == 3          \* operations in one behaviour of the store
MaxFailures == 1     \* client calls that raise within one operation
MaxDays == 2         \* largest requested number of days
MaxCadence == 5      \* largest requested observations_per_day
MaxInputStations == 2 \* longest station list handed to a generator
MaxCallIndex == 6     \* client calls of one operation that the failure plan can make raise
NumRuns == 2          \* station upserts that run side by side

\* Python's None; an optional value is None or a tagged pair
None == <<>>

(***************************************************************************)
(* Python str operations, on tuples of one-character strings.              *)
(***************************************************************************)
LowerCase ==
  <<"a","b","c","d","e","f","g","h","i","j","k","l","m",
    "n","o","p","q","r","s","t","u","v","w","x","y","z">>

UpperCase ==
  <<"A","B","C","D","E","F","G","H","I","J","K","L","M",
    "N","O","P","Q","R","S","T","U","V","W","X","Y","Z">>

Digits == <<"0","1","2","3","4","5","6","7","8","9">>

\* str.upper()
str_upper(s) ==
  [i \in 1..Len(s) |->
     IF \E k \in 1..26 : LowerCase[k] = s[i]
     THEN UpperCase[CHOOSE k \in 1..26 : LowerCase[k] = s[i]]
     ELSE s[i]]

\* str.startswith(p)
str_startswith(s, p) == Len(s) >= Len(p) /\ SubSeq(s, 1, Len(p)) = p

\* str.endswith(p)
str_endswith(s, p) ==
  Len(s) >= Len(p) /\ SubSeq(s, Len(s) - Len(p) + 1, Len(s)) = p

\* str.replace(old, new), old not empty: leftmost non-overlapping occurrences
RECURSIVE str_replace(_, _, _)
str_replace(s, old, new) ==
  IF s = <<>> THEN <<>>
  ELSE IF str_startswith(s, old)
       THEN new \o str_replace(SubSeq(s, Len(old) + 1, Len(s)), old, new)
       ELSE <<Head(s)>> \o str_replace(Tail(s), old, new)

\* s[6:-1]
str_slice_6_m1(s) == SubSeq(s, 7, Len(s) - 1)

\* str.split(): the maximal runs of non-blank characters
RECURSIVE str_split_from(_, _, _)
str_split_from(s, cur, acc) ==
  IF s = <<>> THEN (IF cur = <<>> THEN acc ELSE Append(acc, cur))
  ELSE IF Head(s) = " "
       THEN str_split_from(Tail(s), <<>>, IF cur = <<>> THEN acc ELSE Append(acc, cur))
       ELSE str_split_from(Tail(s), Append(cur, Head(s)), acc)

str_split(s) == str_split_from(s, <<>>, <<>>)

IsDigit(c) == \E k \in 1..10 : Digits[k] = c

DigitValue(c) == (CHOOSE k \in 1..10 : Digits[k] = c) - 1

RECURSIVE DigitsValue(_)
DigitsValue(s) ==
  IF s = <<>> THEN 0
  ELSE DigitsValue(SubSeq(s, 1, Len(s) - 1)) * 10 + DigitValue(s[Len(s)])

AllDigits(s) == \A i \in 1..Len(s) : IsDigit(s[i])

\* the first four decimals of a fraction, as an integer 0..9999
Frac4(s) ==
  LET p == SubSeq(s \o <<"0","0","0","0">>, 1, 4) IN DigitsValue(p)

(***************************************************************************)
(* float(s) for a decimal literal [+-]digits[.digits] (one of the two      *)
(* digit groups may be empty); anything else raises ValueError.  The value *)
(* is in units of 1/10000.  Exponents, inf, nan and underscores, which     *)
(* float() also reads, are not among the inputs of the model.              *)
(***************************************************************************)
float_of_parts(neg, ip, fp, ndots) ==
  IF ndots <= 1 /\ AllDigits(ip) /\ AllDigits(fp) /\ Len(ip) + Len(fp) > 0
  THEN [ok |-> TRUE,
        value |-> (IF neg THEN -1 ELSE 1) * (DigitsValue(ip) * 10000 + Frac4(fp))]
  ELSE [ok |-> FALSE, value |-> 0]

float_of_body(neg, body, dots) ==
  IF dots = {} THEN float_of_parts(neg, body, <<>>, 0)
  ELSE float_of_parts(neg,
                      SubSeq(body, 1, (CHOOSE i \in dots : TRUE) - 1),
                      SubSeq(body, (CHOOSE i \in dots : TRUE) + 1, Len(body)),
                      Cardinality(dots))

float_of_unsigned(neg, body) ==
  float_of_body(neg, body, {i \in 1..Len(body) : body[i] = "."})

float_parse(s) ==
  IF s # <<>> /\ Head(s) \in {"-", "+"}
  THEN float_of_unsigned(Head(s) = "-", Tail(s))
  ELSE float_of_unsigned(FALSE, s)

\* the decimal digits of n >= 0
RECURSIVE int_str(_)
int_str(n) ==
  IF n < 10 THEN <<Digits[n + 1]>>
  ELSE int_str(n \div 10) \o <<Digits[(n % 10) + 1]>>

\* f"{n:03d}", n >= 0
format_03d(n) ==
  LET d == int_str(n) IN
  IF Len(d) >= 3 THEN d
  ELSE SubSeq(<<"0","0","0">>, 1, 3 - Len(d)) \o d

RECURSIVE strip_zeros(_)
strip_zeros(s) ==
  IF Len(s) > 1 /\ s[Len(s)] = "0" THEN strip_zeros(SubSeq(s, 1, Len(s) - 1))
  ELSE s

\* f"{x}" of a float x (repr): the shortest decimal, at least one decimal
float_str(v) ==
  LET mag == IF v < 0 THEN 0 - v ELSE v
      f4  == int_str(mag % 10000)
      pad == SubSeq(<<"0","0","0","0">>, 1, 4 - Len(f4)) \o f4
  IN (IF v < 0 THEN <<"-">> ELSE <<>>)
       \o int_str(mag \div 10000) \o <<".">> \o strip_zeros(pad)

POINT_OPEN == <<"P","O","I","N","T","(">>

CLOSE_PAREN == <<")">>

\* f"POINT({lon} {lat})"
format_point(lon, lat) ==
  POINT_OPEN \o float_str(lon) \o <<" ">> \o float_str(lat) \o CLOSE_PAREN

(***************************************************************************)
(* The station catalogs.  Coordinates are in 1/10000 degree, elevations in *)
(* metres.  (The u-umlaut of Baden-Wuerttemberg is transliterated in both  *)
(* catalogs and in the fire-risk table.)                                   *)
(***************************************************************************)
\* WeatherDataGenerator.station_templates
station_templates ==
  <<
    [name |-> <<"B","e","r","l","i","n"," ","T","e","m","p","e","l","h","o","f">>,
     country |-> "Germany", state_province |-> "Berlin", city |-> "Berlin",
     lat |-> 524675, lon |-> 134021, elevation |-> 50],
    [name |-> <<"M","u","n","i","c","h"," ","A","i","r","p","o","r","t">>,
     country |-> "Germany", state_province |-> "Bavaria", city |-> "Munich",
     lat |-> 483538, lon |-> 117861, elevation |-> 448],
    [name |-> <<"H","a","m","b","u","r","g"," ","H","a","r","b","o","r">>,
     country |-> "Germany", state_province |-> "Hamburg", city |-> "Hamburg",
     lat |-> 535488, lon |-> 99872, elevation |-> 8],
    [name |-> <<"F","r","a","n","k","f","u","r","t"," ","C","e","n","t","r","a","l">>,
     country |-> "Germany", state_province |-> "Hesse", city |-> "Frankfurt",
     lat |-> 501109, lon |-> 86821, elevation |-> 112],
    [name |-> <<"C","o","l","o","g","n","e"," ","W","e","a","t","h","e","r"," ","S","t","a","t","i","o","n">>,
     country |-> "Germany", state_province |-> "North Rhine-Westphalia", city |-> "Cologne",
     lat |-> 509375, lon |-> 69603, elevation |-> 37],
    [name |-> <<"S","t","u","t","t","g","a","r","t"," ","O","b","s","e","r","v","a","t","o","r","y">>,
     country |-> "Germany", state_province |-> "Baden-Wuerttemberg", city |-> "Stuttgart",
     lat |-> 487758, lon |-> 91829, elevation |-> 245],
    [name |-> <<"D","r","e","s","d","e","n"," ","E","l","b","e">>,
     country |-> "Germany", state_province |-> "Saxony", city |-> "Dresden",
     lat |-> 510504, lon |-> 137373, elevation |-> 113],
    [name |-> <<"N","u","r","e","m","b","e","r","g"," ","C","e","n","t","r","a","l">>,
     country |-> "Germany", state_province |-> "Bavaria", city |-> "Nuremberg",
     lat |-> 494521, lon |-> 110767, elevation |-> 302]
  >>

\* WeatherGenerator.stations_data
stations_data ==
  <<
    [name |-> <<"B","e","r","l","i","n"," ","T","e","m","p","e","l","h","o","f">>,
     city |-> "Berlin", lat |-> 524675, lon |-> 134021, elevation |-> 50],
    [name |-> <<"M","u","n","i","c","h"," ","A","i","r","p","o","r","t">>,
     city |-> "Munich", lat |-> 483538, lon |-> 117861, elevation |-> 448],
    [name |-> <<"H","a","m","b","u","r","g"," ","H","a","r","b","o","r">>,
     city |-> "Hamburg", lat |-> 535488, lon |-> 99872, elevation |-> 8],
    [name |-> <<"F","r","a","n","k","f","u","r","t"," ","C","e","n","t","r","a","l">>,
     city |-> "Frankfurt", lat |-> 501109, lon |-> 86821, elevation |-> 112],
    [name |-> <<"C","o","l","o","g","n","e"," ","W","e","a","t","h","e","r">>,
     city |-> "Cologne", lat |-> 509375, lon |-> 69603, elevation |-> 37],
    [name |-> <<"S","t","u","t","t","g","a","r","t"," ","O","b","s","e","r","v","a","t","o","r","y">>,
     city |-> "Stuttgart", lat |-> 487758, lon |-> 91829, elevation |-> 245],
    [name |-> <<"D","r","e","s","d","e","n"," ","E","l","b","e">>,
     city |-> "Dresden", lat |-> 510504, lon |-> 137373, elevation |-> 113],
    [name |-> <<"N","u","r","e","m","b","e","r","g"," ","C","e","n","t","r","a","l">>,
     city |-> "Nuremberg", lat |-> 494521, lon |-> 110767, elevation |-> 302]
  >>

(***************************************************************************)
(* Tables of the library functions the code calls.                         *)
(*   SinYear[d]   = 10000 * sin(2*pi*(d - 80)/365), day of year d = 1..366  *)
(*   SinDay[h+1]  = 10000 * sin(pi*(h - 6)/12), hour h = 0..24              *)
(*   GaussQuantile[u+1] = 100 * (standard normal quantile of (u+0.5)/100)   *)
(*   WindQuantile[u+1]  = 100 * exp(2 + 0.5 * that quantile)                *)
(*   FireSizeQuantile[u+1] = 100 * exp(1 + 1.5 * that quantile)             *)
(***************************************************************************)
SinYear ==
  <<
    -9778, -9741, -9701, -9657, -9611, -9562, -9511, -9456, -9399, -9338, -9275, -9210,
    -9141, -9070, -8996, -8920, -8841, -8759, -8675, -8588, -8498, -8406, -8312, -8215,
    -8115, -8014, -7909, -7803, -7694, -7583, -7470, -7354, -7236, -7117, -6995, -6871,
    -6744, -6616, -6486, -6354, -6220, -6085, -5947, -5808, -5667, -5524, -5380, -5234,
    -5087, -4938, -4787, -4636, -4482, -4328, -4172, -4015, -3857, -3697, -3537, -3375,
    -3213, -3049, -2885, -2720, -2554, -2387, -2219, -2051, -1882, -1713, -1543, -1373,
    -1202, -1031, -860, -688, -516, -344, -172, 0, 172, 344, 516, 688,
    860, 1031, 1202, 1373, 1543, 1713, 1882, 2051, 2219, 2387, 2554, 2720,
    2885, 3049, 3213, 3375, 3537, 3697, 3857, 4015, 4172, 4328, 4482, 4636,
    4787, 4938, 5087, 5234, 5380, 5524, 5667, 5808, 5947, 6085, 6220, 6354,
    6486, 6616, 6744, 6871, 6995, 7117, 7236, 7354, 7470, 7583, 7694, 7803,
    7909, 8014, 8115, 8215, 8312, 8406, 8498, 8588, 8675, 8759, 8841, 8920,
    8996, 9070, 9141, 9210, 9275, 9338, 9399, 9456, 9511, 9562, 9611, 9657,
    9701, 9741, 9778, 9813, 9845, 9873, 9899, 9922, 9942, 9959, 9973, 9984,
    9993, 9998, 10000, 9999, 9995, 9989, 9979, 9967, 9951, 9933, 9911, 9887,
    9859, 9829, 9796, 9760, 9721, 9679, 9635, 9587, 9537, 9484, 9428, 9369,
    9307, 9243, 9176, 9106, 9034, 8958, 8881, 8800, 8717, 8631, 8543, 8452,
    8359, 8264, 8165, 8065, 7962, 7856, 7749, 7639, 7527, 7412, 7296, 7177,
    7056, 6933, 6808, 6681, 6552, 6421, 6288, 6153, 6016, 5878, 5738, 5596,
    5452, 5307, 5161, 5012, 4863, 4712, 4559, 4405, 4250, 4094, 3936, 3777,
    3617, 3456, 3294, 3131, 2967, 2802, 2637, 2470, 2303, 2135, 1967, 1798,
    1628, 1458, 1287, 1117, 945, 774, 602, 430, 258, 86, -86, -258,
    -430, -602, -774, -945, -1117, -1287, -1458, -1628, -1798, -1967, -2135, -2303,
    -2470, -2637, -2802, -2967, -3131, -3294, -3456, -3617, -3777, -3936, -4094, -4250,
    -4405, -4559, -4712, -4863, -5012, -5161, -5307, -5452, -5596, -5738, -5878, -6016,
    -6153, -6288, -6421, -6552, -6681, -6808, -6933, -7056, -7177, -7296, -7412, -7527,
    -7639, -7749, -7856, -7962, -8065, -8165, -8264, -8359, -8452, -8543, -8631, -8717,
    -8800, -8881, -8958, -9034, -9106, -9176, -9243, -9307, -9369, -9428, -9484, -9537,
    -9587, -9635, -9679, -9721, -9760, -9796, -9829, -9859, -9887, -9911, -9933, -9951,
    -9967, -9979, -9989, -9995, -9999, -10000, -9998, -9993, -9984, -9973, -9959, -9942,
    -9922, -9899, -9873, -9845, -9813, -9778
  >>

SinDay == <<-10000, -9659, -8660, -7071, -5000, -2588, 0, 2588, 5000, 7071, 8660, 9659, 10000, 9659, 8660, 7071, 5000, 2588, 0, -2588, -5000, -7071, -8660, -9659, -10000>>

GaussQuantile ==
  <<
    -258, -217, -196, -181, -170, -160, -151, -144, -137, -131, -125, -120, -115, -110, -106, -102, -97, -93, -90, -86,
    -82, -79, -76, -72, -69, -66, -63, -60, -57, -54, -51, -48, -45, -43, -40, -37, -35, -32, -29, -27,
    -24, -21, -19, -16, -14, -11, -9, -6, -4, -1, 1, 4, 6, 9, 11, 14, 16, 19, 21, 24,
    27, 29, 32, 35, 37, 40, 43, 45, 48, 51, 54, 57, 60, 63, 66, 69, 72, 76, 79, 82,
    86, 90, 93, 97, 102, 106, 110, 115, 120, 125, 131, 137, 144, 151, 160, 170, 181, 196, 217, 258
  >>

WindQuantile ==
  <<
    204, 250, 277, 299, 317, 332, 347, 360, 372, 384, 395, 405, 416, 426, 435, 445, 454, 463, 472, 481,
    489, 498, 506, 515, 523, 532, 540, 548, 556, 564, 573, 581, 589, 597, 605, 614, 622, 630, 638, 647,
    655, 664, 672, 681, 690, 698, 707, 716, 725, 734, 744, 753, 762, 772, 782, 792, 802, 812, 823, 833,
    844, 855, 867, 878, 890, 902, 914, 927, 940, 954, 967, 982, 996, 1011, 1027, 1043, 1060, 1078, 1096, 1116,
    1136, 1157, 1179, 1203, 1228, 1254, 1283, 1313, 1347, 1383, 1423, 1467, 1518, 1575, 1643, 1725, 1828, 1969, 2187, 2679
  >>

FireSizeQuantile ==
  <<
    6, 10, 14, 18, 21, 25, 28, 31, 35, 38, 41, 45, 48, 52, 56, 59, 63, 67, 71, 75,
    79, 83, 88, 92, 97, 101, 106, 111, 116, 121, 126, 132, 138, 143, 149, 156, 162, 169, 175, 182,
    190, 197, 205, 213, 221, 229, 238, 247, 257, 267, 277, 288, 299, 310, 322, 334, 347, 361, 375, 390,
    405, 421, 438, 456, 475, 494, 515, 537, 560, 584, 610, 637, 666, 697, 730, 766, 803, 844, 888, 935,
    987, 1043, 1104, 1172, 1246, 1329, 1422, 1526, 1645, 1782, 1941, 2129, 2355, 2634, 2988, 3457, 4118, 5142, 7047, 12951
  >>

(***************************************************************************)
(* datetime, date, timedelta.  2024 is a leap year; the years repeat in    *)
(* cycles of 1461 days (366, 365, 365, 365).                               *)
(***************************************************************************)
timedelta_days(n) == 24 * n

timedelta_hours(n) == n

\* datetime.min, 0001-01-01T00:00: 738885 days before 2024-01-01
datetime_min == timedelta_days(0 - 738885)

\* what datetime - timedelta raises: OverflowError when the result would be
\* before datetime.min
datetime_sub_raises(t, delta) ==
  IF t - delta < datetime_min THEN <<"OverflowError">> ELSE None

\* datetime.date()
date_of(t) == t \div 24

\* date.timetuple().tm_yday
tm_yday(d) ==
  LET r == d % 1461 IN
  IF r < 366 THEN r + 1 ELSE ((r - 366) % 365) + 1

is_leap_year(d) == (d % 1461) < 366

\* the days of the year before month m+1 begins, m = 0..12
MonthEnds(leap) ==
  IF leap THEN <<0, 31, 60, 91, 121, 152, 182, 213, 244, 274, 305, 335, 366>>
  ELSE <<0, 31, 59, 90, 120, 151, 181, 212, 243, 273, 304, 334, 365>>

\* datetime.month
month_of(t) ==
  LET d  == date_of(t)
      yd == tm_yday(d)
      me == MonthEnds(is_leap_year(d))
  IN CHOOSE m \in 1..12 : me[m] < yd /\ yd <= me[m + 1]

\* a datetime object (hours), a date object (days), and the str isoformat() gives
datetime(t) == <<"datetime", t>>

date(d) == <<"date", d>>

\* isinstance(value, datetime).  A date is not a datetime; a datetime is a date.
is_datetime(v) == v # None /\ v[1] = "datetime"

is_date(v) == v # None /\ v[1] \in {"datetime", "date"}

\* datetime.isoformat() and date.isoformat(): a str, no longer a datetime
isoformat(v) == <<"str", v[1], v[2]>>

\* the fields of the generated rows that hold a datetime, a date, a str or None
TimeFields == {"created_at", "updated_at", "timestamp", "fire_date", "containment_date"}

\* the conversion loop of WeatherDataGenerator.insert_data_to_bigquery over one row
iso_row(row) ==
  [f \in DOMAIN row |->
     IF f \in TimeFields /\ is_datetime(row[f]) THEN isoformat(row[f]) ELSE row[f]]

(***************************************************************************)
(* The random module.  The value of a draw is a function of the seed of    *)
(* the run and of the place of the draw (which function, which station,    *)
(* which day and hour, which field); random.random() is Rnd/100.           *)
(***************************************************************************)
Site(fn, i, j, k) == ((fn * 10 + i) * 200 + j) * 16 + k

Rnd(seed, n) ==
  LET m == n % 1009 IN
  (m * m * 7 + m * (13 + 6 * seed) + seed * 29
     + (m \div 5) * 3 + (m \div 7) * (seed + 1) + 17) % 100

\* random.random(), in 1/100
random_random(seed, n) == Rnd(seed, n)

\* random.randint(a, b)
random_randint(a, b, seed, n) == a + (Rnd(seed, n) * (b - a + 1)) \div 100

\* random.choice(seq)
random_choice(seq, seed, n) == seq[1 + (Rnd(seed, n) * Len(seq)) \div 100]

\* random.uniform(a, b), in the unit of a and b
random_uniform(a, b, seed, n) == a + ((b - a) * Rnd(seed, n)) \div 100

\* random.gauss(0, sigma), in the unit of sigma
random_gauss0(sigma, seed, n) == (sigma * GaussQuantile[Rnd(seed, n) + 1]) \div 100

Min(a, b) == IF a < b THEN a ELSE b

Max(a, b) == IF a > b THEN a ELSE b

(***************************************************************************)
(* WeatherDataGenerator.generate_weather_stations                          *)
(***************************************************************************)
WS_PREFIX == <<"W","S","_">>

\* a faulty variant of wdg_station_id: the name is left out and the index halved
station_id_of_half_index(template, i1) == WS_PREFIX \o format_03d(i1 \div 2)

\* f"WS_{template['name'].replace(' ', '_').upper()}_{i + 1:03d}", i = i1 - 1
wdg_station_id(template, i1) ==
  WS_PREFIX \o str_upper(str_replace(template.name, <<" ">>, <<"_">>))
            \o <<"_">> \o format_03d(i1)

\* the ids and the locations of the catalog, computed once
wdg_station_ids ==
  [i1 \in 1..Len(station_templates) |-> wdg_station_id(station_templates[i1], i1)]

\* f"POINT({template['lon']} {template['lat']})"
wdg_locations ==
  [i1 \in 1..Len(station_templates) |->
     format_point(station_templates[i1].lon, station_templates[i1].lat)]

wdg_station(i1, template, now, seed) ==
  [station_id       |-> wdg_station_ids[i1],
   station_name     |-> template.name,
   location         |-> wdg_locations[i1],
   elevation_meters |-> template.elevation,
   country          |-> template.country,
   state_province   |-> template.state_province,
   city             |-> template.city,
   active           |-> random_choice(<<TRUE, TRUE, TRUE, TRUE, TRUE, TRUE, TRUE,
                                        TRUE, TRUE, FALSE>>, seed, Site(1, i1, 0, 0)),
   created_at       |-> datetime(now - timedelta_days(
                                   random_randint(30, 365, seed, Site(1, i1, 0, 1)))),
   updated_at       |-> IF random_random(seed, Site(1, i1, 0, 2)) > 30
                        THEN datetime(now - timedelta_days(
                                        random_randint(1, 30, seed, Site(1, i1, 0, 3))))
                        ELSE None]

generate_weather_stations(num_stations, now, seed) ==
  [i1 \in 1..Min(IF num_stations = None THEN Len(station_templates)
                 ELSE num_stations[1],
                 Len(station_templates))
     |-> wdg_station(i1, station_templates[i1], now, seed)]

(***************************************************************************)
(* The BigQuery client.  An operation makes its client calls in order; the *)
(* failure plan of the operation says which of them raise, and what:       *)
(* google.cloud.exceptions.NotFound or another exception.  A call that     *)
(* raises changes no table.                                                *)
(***************************************************************************)
Kinds == {"NotFound", "Error"}

Plans ==
  {p \in SUBSET ((1..MaxCallIndex) \X Kinds) :
     /\ Cardinality(p) <= MaxFailures
     /\ \A a, b \in p : a[1] = b[1] => a = b}

\* what the k-th client call of the operation does
outcome(plan, k) ==
  IF \E p \in plan : p[1] = k THEN (CHOOSE p \in plan : p[1] = k)[2] ELSE "ok"

(***************************************************************************)
(* The running operation: the tables, the number of the next client call,  *)
(* the calls made so far, the exception that is propagating (None: none),  *)
(* the exception an except clause of the operation swallowed, and the      *)
(* locals of the last _upsert_weather_stations.                            *)
(***************************************************************************)
ctx_start(st, obs, fire) ==
  [st |-> st, obs |-> obs, fire |-> fire, k |-> 1, calls |-> <<>>, raised |-> None,
   caught |-> None,
   existing_stations |-> {}, new_stations |-> <<>>, updated_stations |-> <<>>,
   reconciled |-> FALSE]

\* the next client call: it is logged with what it does
call(ctx, name, table, plan) ==
  [ctx EXCEPT !.k = @ + 1,
              !.calls = Append(@, <<name, table, outcome(plan, ctx.k)>>)]

\* what the call just made did
last_out(ctx) == ctx.calls[Len(ctx.calls)][3]

raise(ctx, kind) == [ctx EXCEPT !.raised = <<kind>>]

\* an except clause that handles the exception
catch(ctx, kind) == [ctx EXCEPT !.raised = None, !.caught = <<kind>>]

(***************************************************************************)
(* What the store makes of a loaded row.  A GEOGRAPHY column holds the     *)
(* point a WKT text denotes; a TIMESTAMP column holds the instant an ISO   *)
(* text denotes.                                                           *)
(***************************************************************************)
NoPoint == [ok |-> FALSE, lon |-> 0, lat |-> 0]

wkt_of_floats(a, b) ==
  IF a.ok /\ b.ok THEN [ok |-> TRUE, lon |-> a.value, lat |-> b.value] ELSE NoPoint

wkt_of_parts(parts) ==
  IF Len(parts) = 2 THEN wkt_of_floats(float_parse(parts[1]), float_parse(parts[2]))
  ELSE NoPoint

\* the point of "POINT(lon lat)"
st_geogfromtext(s) ==
  IF str_startswith(s, POINT_OPEN) /\ str_endswith(s, CLOSE_PAREN)
  THEN wkt_of_parts(str_split(str_slice_6_m1(s)))
  ELSE NoPoint

\* ST_GEOGPOINT(lon, lat)
st_geogpoint(lon, lat) == <<lon, lat>>

\* a TIMESTAMP or DATE value of the store, from the text loaded
store_time(v) == IF v = None THEN None ELSE <<v[Len(v)]>>

station_row_at(s, g) ==
  [station_id       |-> s.station_id,
   station_name     |-> s.station_name,
   location         |-> st_geogpoint(g.lon, g.lat),
   elevation_meters |-> s.elevation_meters,
   country          |-> s.country,
   state_province   |-> s.state_province,
   city             |-> s.city,
   active           |-> s.active,
   created_at       |-> store_time(s.created_at),
   updated_at       |-> store_time(s.updated_at)]

station_row(s) == station_row_at(s, st_geogfromtext(s.location))

RECURSIVE BagOfSeq(_)
BagOfSeq(rows) ==
  IF rows = <<>> THEN EmptyBag ELSE SetToBag({Head(rows)}) (+) BagOfSeq(Tail(rows))

\* the rows a load job appends, and whether the store accepts them
loadable_stations(data) == \A i \in 1..Len(data) : st_geogfromtext(data[i].location).ok

load_stations(st, data) == st (+) BagOfSeq([i \in 1..Len(data) |-> station_row(data[i])])

\* SELECT station_id FROM weather_stations
select_station_ids(st) == {r.station_id : r \in BagToSet(st)}

\* the rows of bag b with F applied to each
BagMap(F(_), b) == BagOfAll(F, b)

\* the rows of bag b that satisfy P
BagFilter(P(_), b) == [r \in {x \in BagToSet(b) : P(x)} |-> b[r]]

\* a faulty variant of sql_update_station: the UPDATE has no WHERE clause
sql_update_every_row(st, station, lon, lat, now) ==
  LET upd(r) ==
        [r EXCEPT !.station_name     = station.station_name,
                  !.location         = st_geogpoint(lon, lat),
                  !.elevation_meters = station.elevation_meters,
                  !.country          = station.country,
                  !.state_province   = station.state_province,
                  !.city             = station.city,
                  !.active           = station.active,
                  !.updated_at       = <<now>>]
  IN BagMap(upd, st)

\* UPDATE weather_stations SET ... WHERE station_id = @station_id
sql_update_station(st, station, lon, lat, now) ==
  LET upd(r) ==
        IF r.station_id = station.station_id
        THEN [r EXCEPT !.station_name     = station.station_name,
                       !.location         = st_geogpoint(lon, lat),
                       !.elevation_meters = station.elevation_meters,
                       !.country          = station.country,
                       !.state_province   = station.state_province,
                       !.city             = station.city,
                       !.active           = station.active,
                       !.updated_at       = <<now>>]
        ELSE r
  IN BagMap(upd, st)

(***************************************************************************)
(* WeatherDataGenerator._update_existing_stations                          *)
(***************************************************************************)
Raised(kind) == [raised |-> <<kind>>, lon |-> 0, lat |-> 0]

update_coords_lat(lon, lat) ==
  IF ~lat.ok THEN Raised("ValueError")
  ELSE [raised |-> None, lon |-> lon.value, lat |-> lat.value]

update_coords_lon(coords_parts, lon) ==
  IF ~lon.ok THEN Raised("ValueError")
  ELSE IF Len(coords_parts) < 2 THEN Raised("IndexError")
  ELSE update_coords_lat(lon, float_parse(coords_parts[2]))

update_coords(coords_parts) ==
  IF Len(coords_parts) < 1 THEN Raised("IndexError")
  ELSE update_coords_lon(coords_parts, float_parse(coords_parts[1]))

\* lines 336-343: lon, lat of the station, or the exception that float() or
\* the indexing of coords_parts raises
update_parse_location(location_str) ==
  IF str_startswith(location_str, POINT_OPEN) /\ str_endswith(location_str, CLOSE_PAREN)
  THEN update_coords(str_split(str_slice_6_m1(location_str)))
  ELSE [raised |-> None, lon |-> 100000, lat |-> 520000]

RECURSIVE update_existing_from(_, _, _, _, _)
update_query(c1, data, i, loc, plan, now) ==
  IF last_out(c1) # "ok" THEN raise(c1, last_out(c1))
  ELSE update_existing_from(
         [c1 EXCEPT !.st = sql_update_station(@, data[i], loc.lon, loc.lat, now)],
         data, i + 1, plan, now)

update_station(ctx, data, i, loc, plan, now) ==
  IF loc.raised # None THEN raise(ctx, loc.raised[1])
  ELSE update_query(call(ctx, "query:update", "weather_stations", plan),
                    data, i, loc, plan, now)

update_existing_from(ctx, data, i, plan, now) ==
  IF i > Len(data) \/ ctx.raised # None THEN ctx
  ELSE update_station(ctx, data, i, update_parse_location(data[i].location), plan, now)

update_existing_stations(ctx, data, plan, now) ==
  update_existing_from(ctx, data, 1, plan, now)

(***************************************************************************)
(* WeatherDataGenerator._upsert_weather_stations                           *)
(***************************************************************************)
\* a faulty variant of reconcile_new: every generated station is inserted
reconcile_everything(data, existing_stations) == data

\* lines 289-297: the stations to insert and the stations to update
reconcile_new(data, existing_stations) ==
  SelectSeq(data, LAMBDA s : s.station_id \notin existing_stations)

reconcile_updated(data, existing_stations) ==
  SelectSeq(data, LAMBDA s : s.station_id \in existing_stations)

\* lines 311-314
upsert_update(c, plan, now) ==
  IF c.raised # None \/ c.updated_stations = <<>> THEN c
  ELSE update_existing_stations(c, c.updated_stations, plan, now)

\* lines 307-308
upsert_load(c4) ==
  IF last_out(c4) # "ok" THEN raise(c4, last_out(c4))
  ELSE IF ~loadable_stations(c4.new_stations) THEN raise(c4, "Error")
  ELSE [c4 EXCEPT !.st = load_stations(@, c4.new_stations)]

\* lines 300-302
upsert_get_table(c3, plan) ==
  IF last_out(c3) # "ok" THEN raise(c3, last_out(c3))
  ELSE upsert_load(call(c3, "load", "weather_stations", plan))

upsert_insert(c2, plan) ==
  IF c2.new_stations = <<>> THEN c2
  ELSE upsert_get_table(call(c2, "get_table", "weather_stations", plan), plan)

upsert_reconcile(c1, data, existing, plan, now) ==
  upsert_update(
    upsert_insert([c1 EXCEPT !.existing_stations = existing,
                             !.new_stations = reconcile_new(data, existing),
                             !.updated_stations = reconcile_updated(data, existing),
                             !.reconciled = TRUE],
                  plan),
    plan, now)

\* lines 281-287: a query that raises counts as no existing station
upsert_weather_stations(ctx, data, plan, now) ==
  upsert_reconcile(call(ctx, "query:existing", "weather_stations", plan), data,
                   IF outcome(plan, ctx.k) = "ok" THEN select_station_ids(ctx.st)
                   ELSE {},
                   plan, now)

(***************************************************************************)
(* WeatherDataGenerator.cleanup_duplicate_stations                         *)
(***************************************************************************)
group_key(r) == <<r.station_name, r.location>>

\* the rows of one (station_name, location) group, as a bag
group_rows(st, g) == BagFilter(LAMBDA r : group_key(r) = g, st)

\* GROUP BY station_name, location HAVING COUNT(*) > 1
duplicate_groups(st) ==
  {g \in {group_key(r) : r \in BagToSet(st)} : BagCardinality(group_rows(st, g)) > 1}

\* the rows ARRAY_AGG(station_id ORDER BY created_at DESC) may put first
first_rows(st, g) ==
  {r \in BagToSet(group_rows(st, g)) :
     \A x \in BagToSet(group_rows(st, g)) : x.created_at[1] <= r.created_at[1]}

\* the ways for the query to order every group: per group, the row whose id
\* comes first
RECURSIVE KeepChoicesOf(_, _)
KeepChoicesOf(st, groups) ==
  IF groups = {} THEN {<<>>}
  ELSE LET g == CHOOSE x \in groups : TRUE IN
       {(g :> r) @@ f : r \in first_rows(st, g), f \in KeepChoicesOf(st, groups \ {g})}

KeepChoices(st) == KeepChoicesOf(st, duplicate_groups(st))

\* row.station_ids[1:] of group g when the row keep comes first
delete_stations(st, g, keep) ==
  {r.station_id : r \in BagToSet(group_rows(st, g) (-) SetToBag({keep}))}

\* DELETE FROM weather_stations WHERE station_id IN (...)
sql_delete_stations(st, ids) == BagFilter(LAMBDA r : r.station_id \notin ids, st)

\* lines 426-435; the except clause of line 437 swallows what the query raises
cleanup_delete(c2, stations_to_delete) ==
  IF last_out(c2) # "ok" THEN catch(c2, last_out(c2))
  ELSE [c2 EXCEPT !.st = sql_delete_stations(@, stations_to_delete)]

cleanup_collect(c1, stations_to_delete, plan) ==
  IF stations_to_delete = {} THEN c1
  ELSE cleanup_delete(call(c1, "query:delete", "weather_stations", plan),
                      stations_to_delete)

\* lines 408-423
cleanup_duplicates(c1, duplicates, keep, plan) ==
  IF last_out(c1) # "ok" THEN catch(c1, last_out(c1))
  ELSE IF duplicates = {} THEN c1
  ELSE cleanup_collect(c1,
         UNION {delete_stations(c1.st, g, keep[g]) : g \in duplicates}, plan)

cleanup_duplicate_stations(ctx, plan, keep) ==
  cleanup_duplicates(call(ctx, "query:duplicates", "weather_stations", plan),
                     duplicate_groups(ctx.st), keep, plan)

(***************************************************************************)
(* WeatherDataGenerator.insert_data_to_bigquery.  The conversion loop      *)
(* changes the rows of the caller's list, so the list is returned too.     *)
(***************************************************************************)
\* a faulty variant of load_rows: the load job replaces the rows of the table
load_rows_truncate(ctx, table_name, rows) ==
  IF table_name = "weather_observations"
  THEN [ctx EXCEPT !.obs = BagOfSeq(rows)]
  ELSE [ctx EXCEPT !.fire = BagOfSeq(rows)]

\* load_table_from_json with WRITE_APPEND (lines 263-266)
load_rows(ctx, table_name, rows) ==
  IF table_name = "weather_observations"
  THEN [ctx EXCEPT !.obs = @ (+) BagOfSeq(rows)]
  ELSE [ctx EXCEPT !.fire = @ (+) BagOfSeq(rows)]

\* lines 261-269
insert_load(c2, table_name, conv) ==
  IF last_out(c2) # "ok" THEN [ctx |-> raise(c2, last_out(c2)), data |-> conv]
  ELSE [ctx |-> load_rows(c2, table_name, conv), data |-> conv]

\* lines 252-260
insert_converted(c1, table_name, conv, plan, now) ==
  IF table_name = "weather_stations"
  THEN [ctx |-> upsert_weather_stations(c1, conv, plan, now), data |-> conv]
  ELSE insert_load(call(c1, "load", table_name, plan), table_name, conv)

\* lines 246-250
insert_get_table(c1, table_name, data, plan, now) ==
  IF last_out(c1) = "NotFound" THEN [ctx |-> c1, data |-> data]
  ELSE IF last_out(c1) # "ok" THEN [ctx |-> raise(c1, last_out(c1)), data |-> data]
  ELSE insert_converted(c1, table_name, [i \in 1..Len(data) |-> iso_row(data[i])],
                        plan, now)

insert_data_to_bigquery(ctx, table_name, data, plan, now) ==
  insert_get_table(call(ctx, "get_table", table_name, plan), table_name, data, plan, now)

(***************************************************************************)
(* batch_data_generator.generate_stations_only                             *)
(***************************************************************************)
generate_stations_only(ctx, stations, plan, now) ==
  insert_data_to_bigquery(ctx, "weather_stations", stations, plan, now)

(***************************************************************************)
(* WeatherDataGenerator.get_seasonal_params.  Temperatures are in 1/10000  *)
(* degree Celsius.                                                         *)
(***************************************************************************)
\* a faulty variant of season_of: the bands without their first and last days
season_of_open_bands(day_of_year) ==
  IF 80 < day_of_year /\ day_of_year < 172 THEN "spring"
  ELSE IF 173 < day_of_year /\ day_of_year < 266 THEN "summer"
  ELSE IF 267 < day_of_year /\ day_of_year < 355 THEN "autumn"
  ELSE "winter"

\* lines 117 and 122-130
season_of(day_of_year) ==
  IF 80 <= day_of_year /\ day_of_year <= 172 THEN "spring"
  ELSE IF 173 <= day_of_year /\ day_of_year <= 266 THEN "summer"
  ELSE IF 267 <= day_of_year /\ day_of_year <= 355 THEN "autumn"
  ELSE "winter"

seasonal_params_of(day_of_year, season) ==
  [base_temp     |-> 100000 + 15 * SinYear[day_of_year],
   season        |-> season,
   temp_variance |-> IF season \in {"spring", "autumn"} THEN 8 ELSE 5]

get_seasonal_params(t) ==
  seasonal_params_of(tm_yday(date_of(t)), season_of(tm_yday(date_of(t))))

(***************************************************************************)
(* WeatherDataGenerator.weather_conditions and generate_weather_condition  *)
(***************************************************************************)
weather_conditions ==
  [sunny         |-> [temp_lo |-> 15,  temp_hi |-> 35, hum_lo |-> 30, hum_hi |-> 60,
                      precip_max |-> 0],
   partly_cloudy |-> [temp_lo |-> 10,  temp_hi |-> 30, hum_lo |-> 40, hum_hi |-> 70,
                      precip_max |-> 2],
   cloudy        |-> [temp_lo |-> 5,   temp_hi |-> 25, hum_lo |-> 50, hum_hi |-> 80,
                      precip_max |-> 5],
   rainy         |-> [temp_lo |-> 5,   temp_hi |-> 20, hum_lo |-> 70, hum_hi |-> 95,
                      precip_max |-> 50],
   stormy        |-> [temp_lo |-> 8,   temp_hi |-> 22, hum_lo |-> 75, hum_hi |-> 95,
                      precip_max |-> 100],
   snowy         |-> [temp_lo |-> -10, temp_hi |-> 3,  hum_lo |-> 80, hum_hi |-> 95,
                      precip_max |-> 30],
   foggy         |-> [temp_lo |-> 0,   temp_hi |-> 15, hum_lo |-> 85, hum_hi |-> 98,
                      precip_max |-> 1]]

\* the candidates random.choice draws from
condition_candidates(temp) ==
  IF temp < -50000 THEN <<"snowy", "cloudy", "foggy">>
  ELSE IF temp < 50000 THEN <<"cloudy", "foggy", "rainy", "partly_cloudy">>
  ELSE IF temp < 150000 THEN <<"cloudy", "rainy", "partly_cloudy", "sunny">>
  ELSE IF temp < 250000 THEN <<"sunny", "partly_cloudy", "cloudy">>
  ELSE <<"sunny", "partly_cloudy">>

generate_weather_condition(temp, season, seed, n) ==
  random_choice(condition_candidates(temp), seed, n)

\* round(x, 1) of a value in 1/10000
round1(x) == ((x + 500) \div 1000) * 1000

(***************************************************************************)
(* WeatherDataGenerator.generate_weather_observations                      *)
(***************************************************************************)
\* lines 167-186: the coordinates of the station, or the default when the
\* parsing raises
obs_coords_of(parts) ==
  IF Len(parts) >= 2 /\ float_parse(parts[1]).ok /\ float_parse(parts[2]).ok
  THEN [fallback |-> FALSE, lon |-> float_parse(parts[1]).value,
                            lat |-> float_parse(parts[2]).value]
  ELSE [fallback |-> TRUE, lon |-> 100000, lat |-> 520000]

obs_parse_location(location_str) ==
  IF str_startswith(location_str, POINT_OPEN) /\ str_endswith(location_str, CLOSE_PAREN)
  THEN obs_coords_of(str_split(str_slice_6_m1(location_str)))
  ELSE obs_coords_of(str_split(str_replace(str_replace(location_str, POINT_OPEN, <<>>),
                                           CLOSE_PAREN, <<>>)))

\* a faulty variant of elevation_adjusted: the adjustment has the wrong sign
elevation_added(base_temp, elevation) == base_temp + (elevation * 65)

\* line 197: base_temp -= (elevation / 1000) * 6.5, in 1/10000 degree
elevation_adjusted(base_temp, elevation) == base_temp - (elevation * 65)

\* lines 191-197 and 238: the base_temp of each day of one station
RECURSIVE base_temps_from_day(_, _, _)
base_temps_from_day(elevation, current_date, end_date) ==
  IF ~(current_date < end_date) THEN <<>>
  ELSE <<elevation_adjusted(get_seasonal_params(current_date).base_temp, elevation)>>
       \o base_temps_from_day(elevation, current_date + timedelta_days(1), end_date)

\* range(0, 24, step), step > 0
range_0_24(step) == [k \in 1..((24 + step - 1) \div step) |-> (k - 1) * step]

\* lines 215-218
adjust_temp(temp, params, seed, n) ==
  IF temp < params.temp_lo * 10000
  THEN params.temp_lo * 10000 + random_uniform(-20000, 20000, seed, n)
  ELSE IF temp > params.temp_hi * 10000
  THEN params.temp_hi * 10000 + random_uniform(-20000, 20000, seed, n)
  ELSE temp

\* lines 220-234.  The fields pressure_hpa, wind_speed_ms, wind_direction_degrees,
\* precipitation_mm and visibility_km are independent draws that nothing reads.
observation_of(station, si, di, hour, current_date, temp, condition, seed, now) ==
  [observation_id      |-> <<"uuid4", now, seed, si, di, hour>>,
   station_id          |-> station.station_id,
   timestamp           |-> datetime(current_date + timedelta_hours(hour)),
   location            |-> station.location,
   temperature_celsius |-> round1(adjust_temp(temp, weather_conditions[condition],
                                              seed, Site(2, si, di * 25 + hour, 3))),
   humidity_percent    |-> random_uniform(weather_conditions[condition].hum_lo * 100,
                                          weather_conditions[condition].hum_hi * 100,
                                          seed, Site(2, si, di * 25 + hour, 4)),
   weather_condition   |-> condition]

\* lines 204-211
observation_at(station, si, di, hour, current_date, sp, base_temp, seed, now, temp) ==
  observation_of(station, si, di, hour, current_date, temp,
                 generate_weather_condition(temp, sp.season, seed,
                                            Site(2, si, di * 25 + hour, 2)),
                 seed, now)

\* lines 200-236: the observations of one station and one day
observations_of_hours(station, si, di, hours, current_date, sp, base_temp, seed, now) ==
  [k \in 1..Len(hours) |->
     observation_at(station, si, di, hours[k], current_date, sp, base_temp, seed, now,
                    base_temp + (5 * SinDay[hours[k] + 1])
                      + random_gauss0(sp.temp_variance * 10000, seed,
                                      Site(2, si, di * 25 + hours[k], 1)))]

\* the hours of the day whose sample is not skipped (line 201)
kept_hours(hours, si, di, seed) ==
  SelectSeq(hours, LAMBDA h : ~(random_random(seed, Site(2, si, di * 25 + h, 0)) < 5))

observations_of_day(station, si, di, step, current_date, sp, seed, now) ==
  observations_of_hours(station, si, di, kept_hours(range_0_24(step), si, di, seed),
                        current_date, sp,
                        elevation_adjusted(sp.base_temp, station.elevation_meters),
                        seed, now)

\* lines 191-238: the days of one station, from day number di on
RECURSIVE observations_from_day(_, _, _, _, _, _, _, _)
observations_from_day(station, si, di, step, current_date, end_date, seed, now) ==
  IF ~(current_date < end_date) THEN <<>>
  ELSE observations_of_day(station, si, di, step, current_date,
                           get_seasonal_params(current_date), seed, now)
       \o observations_from_day(station, si, di + 1, step,
                                current_date + timedelta_days(1), end_date, seed, now)

\* a faulty variant of step_raises: the step is 12 // observations_per_day
step_raises_above_12(observations_per_day) ==
  IF observations_per_day = 0 THEN <<"ZeroDivisionError">>
  ELSE IF observations_per_day > 12 THEN <<"ValueError">>
  ELSE None

\* 24 // observations_per_day, and what range() makes of it
step_raises(observations_per_day) ==
  IF observations_per_day = 0 THEN <<"ZeroDivisionError">>
  ELSE IF observations_per_day > 24 THEN <<"ValueError">>
  ELSE None

\* a faulty variant of obs_join: the later stations come first
obs_join_later_first(coords, obs, rest) ==
  IF rest.raised # None THEN rest
  ELSE [raised |-> None, observations |-> rest.observations \o obs,
        coords |-> <<coords>> \o rest.coords]

\* the observations of a station, followed by those of the later stations;
\* coords holds the lon and lat computed for each station visited
obs_join(coords, obs, rest) ==
  IF rest.raised # None THEN rest
  ELSE [raised |-> None, observations |-> obs \o rest.observations,
        coords |-> <<coords>> \o rest.coords]

\* lines 159-238: the stations from number si on
RECURSIVE observations_from_station(_, _, _, _, _, _)
observations_from_station(stations, si, days, observations_per_day, seed, now) ==
  IF si > Len(stations) THEN [raised |-> None, observations |-> <<>>, coords |-> <<>>]
  ELSE IF ~stations[si].active
  THEN observations_from_station(stations, si + 1, days, observations_per_day, seed, now)
  ELSE IF days > 0 /\ step_raises(observations_per_day) # None
  THEN [raised |-> step_raises(observations_per_day), observations |-> <<>>,
        coords |-> <<>>]
  ELSE obs_join(
         obs_parse_location(stations[si].location),
         observations_from_day(stations[si], si, 0, 24 \div observations_per_day,
                               now - timedelta_days(days), now, seed, now),
         observations_from_station(stations, si + 1, days, observations_per_day,
                                   seed, now))

\* lines 154-155 and 159-240
generate_weather_observations(stations, days, observations_per_day, seed, now) ==
  IF datetime_sub_raises(now, timedelta_days(days)) # None
  THEN [raised |-> datetime_sub_raises(now, timedelta_days(days)),
        observations |-> <<>>, coords |-> <<>>]
  ELSE observations_from_station(stations, 1, days, observations_per_day, seed, now)

(***************************************************************************)
(* WeatherGenerator (weather_generator.py)                                 *)
(***************************************************************************)
\* _get_state
wg_get_state(city) ==
  CASE city = "Berlin" -> "Berlin"
    [] city = "Munich" -> "Bavaria"
    [] city = "Hamburg" -> "Hamburg"
    [] city = "Frankfurt" -> "Hesse"
    [] city = "Cologne" -> "North Rhine-Westphalia"
    [] city = "Stuttgart" -> "Baden-Wuerttemberg"
    [] city = "Dresden" -> "Saxony"
    [] city = "Nuremberg" -> "Bavaria"
    [] OTHER -> "Unknown"

\* f"WS_{i + 1:03d}_{station['name'].replace(' ', '_').upper()}", i = i1 - 1
wg_station_id(station, i1) ==
  WS_PREFIX \o format_03d(i1) \o <<"_">>
            \o str_upper(str_replace(station.name, <<" ">>, <<"_">>))

wg_station_ids ==
  [i1 \in 1..Len(stations_data) |-> wg_station_id(stations_data[i1], i1)]

wg_locations ==
  [i1 \in 1..Len(stations_data) |->
     format_point(stations_data[i1].lon, stations_data[i1].lat)]

wg_station(i1, station, now, seed) ==
  [station_id       |-> wg_station_ids[i1],
   station_name     |-> station.name,
   location         |-> wg_locations[i1],
   elevation_meters |-> station.elevation,
   country          |-> "Germany",
   state_province   |-> wg_get_state(station.city),
   city             |-> station.city,
   active           |-> TRUE,
   created_at       |-> datetime(now - timedelta_days(
                                   random_randint(30, 365, seed, Site(4, i1, 0, 1)))),
   updated_at       |-> None]

create_stations(count, now, seed) ==
  [i1 \in 1..Min(IF count = None THEN Len(stations_data) ELSE count[1],
                 Len(stations_data))
     |-> wg_station(i1, stations_data[i1], now, seed)]

\* _get_seasonal_temp, in 1/10000 degree
wg_get_seasonal_temp(t) == 100000 + 15 * SinYear[tm_yday(date_of(t))]

\* _get_weather_condition
wg_get_weather_condition(temp, seed, n) ==
  IF temp < 0 THEN random_choice(<<"snowy", "cloudy">>, seed, n)
  ELSE IF temp < 100000 THEN random_choice(<<"cloudy", "rainy", "partly_cloudy">>, seed, n)
  ELSE IF temp < 200000 THEN random_choice(<<"partly_cloudy", "cloudy", "sunny">>, seed, n)
  ELSE random_choice(<<"sunny", "partly_cloudy">>, seed, n)

\* line 86: elevation_adjustment = -(elevation / 1000) * 6.5
wg_elevation_adjustment(elevation) == -(elevation * 65)

\* create_observations, lines 81-105
wg_observation(station, si, di, hour, current_date, temp, seed, now) ==
  [observation_id      |-> <<"uuid4", now, seed, si, di, hour>>,
   station_id          |-> station.station_id,
   timestamp           |-> datetime(current_date + timedelta_hours(hour)),
   location            |-> station.location,
   temperature_celsius |-> round1(temp),
   humidity_percent    |-> random_uniform(4000, 8500, seed, Site(5, si, di * 25 + hour, 4)),
   weather_condition   |-> wg_get_weather_condition(temp, seed,
                                                    Site(5, si, di * 25 + hour, 2))]

\* lines 76-105: the observations of one station and one day
wg_observations_of_hours(station, si, di, hours, current_date, base_temp, seed, now) ==
  [k \in 1..Len(hours) |->
     wg_observation(station, si, di, hours[k], current_date,
                    base_temp + (5 * SinDay[hours[k] + 1])
                      + wg_elevation_adjustment(station.elevation_meters)
                      + random_gauss0(30000, seed, Site(5, si, di * 25 + hours[k], 1)),
                    seed, now)]

wg_kept_hours(hours, si, di, seed) ==
  SelectSeq(hours, LAMBDA h : ~(random_random(seed, Site(5, si, di * 25 + h, 0)) < 5))

RECURSIVE wg_observations_from_day(_, _, _, _, _, _, _)
wg_observations_from_day(station, si, di, current_date, end_date, seed, now) ==
  IF ~(current_date < end_date) THEN <<>>
  ELSE wg_observations_of_hours(station, si, di,
                                wg_kept_hours(<<6, 12, 18, 24>>, si, di, seed),
                                current_date, wg_get_seasonal_temp(current_date),
                                seed, now)
       \o wg_observations_from_day(station, si, di + 1,
                                   current_date + timedelta_days(1), end_date, seed, now)

RECURSIVE wg_observations_from_station(_, _, _, _, _)
wg_observations_from_station(stations, si, days, seed, now) ==
  IF si > Len(stations) THEN <<>>
  ELSE wg_observations_from_day(stations[si], si, 0, now - timedelta_days(days), now,
                                seed, now)
       \o wg_observations_from_station(stations, si + 1, days, seed, now)

create_observations(stations, days, seed, now) ==
  wg_observations_from_station(stations, 1, days, seed, now)

(***************************************************************************)
(* WeatherGenerator.create_fire_records and its helpers.  Risks are in     *)
(* 1/100, seasonal multipliers in 1/10, weather multipliers in 1/10000.    *)
(***************************************************************************)
\* high_risk_regions, with the default of the lookup
base_risk_of(state) ==
  CASE state = "Brandenburg" -> 15
    [] state = "Lower Saxony" -> 12
    [] state = "Bavaria" -> 10
    [] state = "Saxony" -> 8
    [] state = "Hesse" -> 7
    [] state = "North Rhine-Westphalia" -> 6
    [] state = "Baden-Wuerttemberg" -> 6
    [] OTHER -> 5

seasonal_risks == <<3, 4, 7, 12, 18, 22, 25, 28, 20, 13, 6, 4>>

\* _get_seasonal_fire_multiplier
wg_get_seasonal_fire_multiplier(month) ==
  IF month \in 1..12 THEN seasonal_risks[month] ELSE 10

\* _calculate_fire_weather_risk, lines 271-297
risk_temp(temp) ==
  IF temp > 300000 THEN 30000 ELSE IF temp > 250000 THEN 15000 ELSE 10000

risk_humidity(m, humidity) ==
  IF humidity < 3000 THEN m * 2 ELSE IF humidity < 5000 THEN (m * 13) \div 10 ELSE m

risk_wind(m, wind_speed) ==
  IF wind_speed > 1500 THEN (m * 28) \div 10
  ELSE IF wind_speed > 1000 THEN (m * 14) \div 10 ELSE m

risk_rain(m, days_since_rain) ==
  IF days_since_rain > 20 THEN m * 4
  ELSE IF days_since_rain > 10 THEN (m * 16) \div 10 ELSE m

\* a faulty variant of risk_cap: the multiplier is returned as it is
risk_uncapped(risk_multiplier) == risk_multiplier

\* line 297: min(risk_multiplier, 10.0)
risk_cap(risk_multiplier) == Min(risk_multiplier, 100000)

\* lines 271-297: the multiplier of the simulated conditions; temp in
\* 1/10000 degree, humidity in 1/100 percent, wind_speed in 1/100 m/s
risk_multiplier_of(temp, humidity, wind_speed, days_since_rain) ==
  risk_cap(risk_rain(risk_wind(risk_humidity(risk_temp(temp), humidity), wind_speed),
                     days_since_rain))

\* lines 266-269: the simulated conditions of the station-day
wg_calculate_fire_weather_risk(t, si, di, seed) ==
  risk_multiplier_of(
    wg_get_seasonal_temp(t) + random_gauss0(50000, seed, Site(3, si, di, 0)),
    random_uniform(3000, 8000, seed, Site(3, si, di, 1)),
    WindQuantile[random_random(seed, Site(3, si, di, 2)) + 1],
    random_randint(0, 20, seed, Site(3, si, di, 3)))

FIRE_PREFIX == <<"F","I","R","E","_">>

\* f"{fire_id:04d}"
format_04d(n) ==
  IF Len(int_str(n)) >= 4 THEN int_str(n)
  ELSE SubSeq(<<"0","0","0","0">>, 1, 4 - Len(int_str(n))) \o int_str(n)

\* lines 306-308: the coordinates of the station, or the exception raised
fire_coords_of(station_coords) ==
  IF Len(station_coords) = 0 THEN [raised |-> <<"IndexError">>, lon |-> 0, lat |-> 0]
  ELSE IF ~float_parse(station_coords[1]).ok
  THEN [raised |-> <<"ValueError">>, lon |-> 0, lat |-> 0]
  ELSE IF Len(station_coords) = 1 THEN [raised |-> <<"IndexError">>, lon |-> 0, lat |-> 0]
  ELSE IF ~float_parse(station_coords[2]).ok
  THEN [raised |-> <<"ValueError">>, lon |-> 0, lat |-> 0]
  ELSE [raised |-> None, lon |-> float_parse(station_coords[1]).value,
                         lat |-> float_parse(station_coords[2]).value]

fire_parse_location(location) ==
  fire_coords_of(str_split(str_replace(str_replace(location, POINT_OPEN, <<>>),
                                       CLOSE_PAREN, <<>>)))

\* a faulty variant of containment_date_of: the delay counted in hours
containment_date_in_hours(fire_date, containment_days) ==
  date(date_of(fire_date + timedelta_hours(containment_days)))

\* lines 321 and 334: (fire_date + timedelta(days=containment_days)).date()
containment_date_of(fire_date, containment_days) ==
  date(date_of(fire_date + timedelta_days(containment_days)))

\* lines 302-341
fire_record_of(fire_id, station, fire_date, coords, si, di, seed, now) ==
  [fire_id            |-> FIRE_PREFIX \o format_04d(fire_id),
   fire_name          |-> <<station.city,
                            random_choice(<<"Forest", "Hill", "Ridge", "Valley", "Creek",
                                            "Lake">>, seed, Site(3, si, di, 9)),
                            "Fire", fire_id>>,
   location           |-> format_point(
                            coords.lon + random_uniform(-5000, 5000, seed, Site(3, si, di, 6)),
                            coords.lat + random_uniform(-5000, 5000, seed, Site(3, si, di, 5))),
   fire_date          |-> date(date_of(fire_date)),
   fire_size_hectares |-> Max(10, FireSizeQuantile[random_random(seed, Site(3, si, di, 7)) + 1]),
   cause              |-> random_choice(<<"lightning", "human", "equipment", "arson",
                                          "unknown">>, seed, Site(3, si, di, 10)),
   containment_date   |-> containment_date_of(
                            fire_date, random_randint(1, 14, seed, Site(3, si, di, 8))),
   fire_status        |-> random_choice(<<"contained", "controlled", "out">>,
                                        seed, Site(3, si, di, 11)),
   country            |-> "Germany",
   state_province     |-> station.state_province,
   city               |-> station.city,
   created_at         |-> datetime(now),
   updated_at         |-> None]

\* _generate_single_fire_record: the record, or the exception of the parsing
wg_generate_single_fire_record(fire_id, station, fire_date, coords, si, di, seed, now) ==
  IF coords.raised # None THEN [raised |-> coords.raised, record |-> None]
  ELSE [raised |-> None,
        record |-> fire_record_of(fire_id, station, fire_date, coords, si, di, seed, now)]

\* line 237: base_risk * seasonal_multiplier * weather_multiplier, in
\* 1/10000000
combined_fire_risk(base_risk, seasonal_multiplier, weather_multiplier) ==
  base_risk * seasonal_multiplier * weather_multiplier

\* lines 229-237
daily_fire_risk(station, current_date, si, di, seed) ==
  combined_fire_risk(base_risk_of(station.state_province),
                     wg_get_seasonal_fire_multiplier(month_of(current_date)),
                     wg_calculate_fire_weather_risk(current_date, si, di, seed))

\* a faulty variant of fire_add: the counter is left as it was
fire_add_same_id(acc, single) ==
  IF single.raised # None THEN [acc EXCEPT !.raised = single.raised]
  ELSE [acc EXCEPT !.fire_records = Append(@, single.record)]

\* lines 243-248: one station of one day
fire_add(acc, single) ==
  IF single.raised # None THEN [acc EXCEPT !.raised = single.raised]
  ELSE [acc EXCEPT !.fire_records = Append(@, single.record),
                   !.fire_id_counter = @ + 1]

fire_step(acc, station, current_date, si, di, seed, now) ==
  IF random_random(seed, Site(3, si, di, 4)) * 100000
       < daily_fire_risk(station, current_date, si, di, seed)
  THEN fire_add(acc, wg_generate_single_fire_record(
                       acc.fire_id_counter, station, current_date,
                       fire_parse_location(station.location), si, di, seed, now))
  ELSE acc

\* lines 226-250: the station-days from number p on, day by day and station by
\* station within the day; an exception ends the function
RECURSIVE fire_from(_, _, _, _, _, _, _)
fire_from(acc, stations, p, total, start_date, seed, now) ==
  IF p >= total \/ acc.raised # None THEN acc
  ELSE fire_from(fire_step(acc, stations[(p % Len(stations)) + 1],
                           start_date + timedelta_days(p \div Len(stations)),
                           (p % Len(stations)) + 1, p \div Len(stations), seed, now),
                 stations, p + 1, total, start_date, seed, now)

create_fire_records(stations, days, seed, now) ==
  fire_from([raised |-> None, fire_records |-> <<>>, fire_id_counter |-> 1],
            stations, 0, Len(stations) * Max(days, 0), now - timedelta_days(days),
            seed, now)

(***************************************************************************)
(* WeatherDataGenerator.get_data_status: two counting queries; the except  *)
(* clause of line 482 swallows what they raise.                            *)
(***************************************************************************)
status_observations(c2) ==
  IF last_out(c2) # "ok" THEN catch(c2, last_out(c2)) ELSE c2

status_stations(c1, plan) ==
  IF last_out(c1) # "ok" THEN catch(c1, last_out(c1))
  ELSE status_observations(call(c1, "query:status", "weather_observations", plan))

get_data_status(ctx, plan) ==
  status_stations(call(ctx, "query:status", "weather_stations", plan), plan)

(***************************************************************************)
(* WeatherDataGenerator.generate_and_insert_all_data.  The result holds    *)
(* the running operation, the stations and the observations generated.     *)
(***************************************************************************)
all_result(ctx, stations, observations) ==
  [ctx |-> ctx, stations |-> stations, observations |-> observations]

\* lines 381-385
all_final_status(res, stations, plan) ==
  IF res.ctx.raised # None THEN all_result(res.ctx, stations, res.data)
  ELSE all_result(get_data_status(res.ctx, plan), stations, res.data)

\* lines 376-381
all_observations(c2, stations, gen, plan, now) ==
  IF gen.raised # None THEN all_result(raise(c2, gen.raised[1]), stations, <<>>)
  ELSE all_final_status(
         insert_data_to_bigquery(c2, "weather_observations", gen.observations, plan, now),
         stations, plan)

\* lines 373-378
all_stations(res, days, observations_per_day, plan, now, seed) ==
  IF res.ctx.raised # None THEN all_result(res.ctx, res.data, <<>>)
  ELSE all_observations(res.ctx, res.data,
                        generate_weather_observations(res.data, days,
                                                      observations_per_day, seed, now),
                        plan, now)

\* lines 367-373
generate_and_insert_all_data(ctx, stations, days, observations_per_day, plan, now, seed) ==
  all_stations(insert_data_to_bigquery(get_data_status(ctx, plan), "weather_stations",
                                       stations, plan, now),
               days, observations_per_day, plan, now, seed)

(***************************************************************************)
(* WeatherGenerator.insert_to_bigquery and generate_all                    *)
(***************************************************************************)
\* lines 125-130 and 138-141: datetime and date values become str
wg_iso_row(row) ==
  [f \in DOMAIN row |->
     IF f \in TimeFields /\ is_date(row[f]) THEN isoformat(row[f]) ELSE row[f]]

\* what load_table_from_json appends to the table
wg_load_rows(ctx, table_name, rows) ==
  IF table_name = "weather_stations"
  THEN [ctx EXCEPT !.st = load_stations(@, rows)]
  ELSE load_rows(ctx, table_name, rows)

\* lines 143-146: the second load job
wg_insert_second(c3, table_name, conv) ==
  IF last_out(c3) # "ok" THEN [ctx |-> raise(c3, last_out(c3)), data |-> conv]
  ELSE [ctx |-> wg_load_rows(c3, table_name, conv), data |-> conv]

\* lines 132-135: the first load job
wg_insert_first(c2, table_name, conv, plan) ==
  IF last_out(c2) # "ok" THEN [ctx |-> raise(c2, last_out(c2)), data |-> conv]
  ELSE wg_insert_second(call(wg_load_rows(c2, table_name, conv), "load", table_name, plan),
                        table_name, conv)

\* lines 119-130
wg_insert_get_table(c1, table_name, data, plan) ==
  IF last_out(c1) = "NotFound" THEN [ctx |-> c1, data |-> data]
  ELSE IF last_out(c1) # "ok" THEN [ctx |-> raise(c1, last_out(c1)), data |-> data]
  ELSE wg_insert_first(call(c1, "load", table_name, plan), table_name,
                       [i \in 1..Len(data) |-> wg_iso_row(data[i])], plan)

insert_to_bigquery(ctx, table_name, data, plan) ==
  IF data = <<>> THEN [ctx |-> ctx, data |-> data]
  ELSE wg_insert_get_table(call(ctx, "get_table", table_name, plan), table_name, data, plan)

wg_result(ctx, stations, observations, fires) ==
  [ctx |-> ctx, stations |-> stations, observations |-> observations, fires |-> fires]

\* lines 159-161
wg_all_fires(resO, stations, gen, plan) ==
  IF gen.raised # None
  THEN wg_result(raise(resO.ctx, gen.raised[1]), stations, resO.data, <<>>)
  ELSE wg_result(insert_to_bigquery(resO.ctx, "fire_records", gen.fire_records, plan).ctx,
                 stations, resO.data, gen.fire_records)

\* lines 156-159
wg_all_observations(resO, stations, days, plan, now, seed) ==
  IF resO.ctx.raised # None THEN wg_result(resO.ctx, stations, resO.data, <<>>)
  ELSE wg_all_fires(resO, stations, create_fire_records(stations, days, seed, now), plan)

\* lines 152-156
wg_all_stations(resS, days, plan, now, seed) ==
  IF resS.ctx.raised # None THEN wg_result(resS.ctx, resS.data, <<>>, <<>>)
  ELSE wg_all_observations(
         insert_to_bigquery(resS.ctx, "weather_observations",
                            create_observations(resS.data, days, seed, now), plan),
         resS.data, days, plan, now, seed)

generate_all(ctx, stations, days, plan, now, seed) ==
  wg_all_stations(insert_to_bigquery(ctx, "weather_stations", stations, plan),
                  days, plan, now, seed)

(***************************************************************************)
(* batch_data_generator.generate_historical_data.  The dates are the       *)
(* datetimes strptime makes of the two arguments (midnight of a day).      *)
(***************************************************************************)
\* the orders in which a query without ORDER BY may return the rows of bag b
RECURSIVE RowOrders(_)
RowOrders(b) ==
  IF b = EmptyBag THEN {<<>>}
  ELSE UNION {{<<r>> \o s : s \in RowOrders(b (-) SetToBag({r}))} : r \in BagToSet(b)}

\* SELECT ... FROM weather_stations WHERE active = true
select_active_stations(st) == BagFilter(LAMBDA r : r.active, st)

\* lines 106-118: the station dict built from a row; str() of a GEOGRAPHY
\* value is its WKT text
station_of_row(row) ==
  [station_id       |-> row.station_id,
   station_name     |-> row.station_name,
   location         |-> format_point(row.location[1], row.location[2]),
   elevation_meters |-> row.elevation_meters,
   country          |-> row.country,
   state_province   |-> row.state_province,
   city             |-> row.city,
   active           |-> row.active,
   created_at       |-> row.created_at,
   updated_at       |-> row.updated_at]

\* lines 157-171
hist_observation(station, si, di, hour, current_date, temp, condition, seed) ==
  [observation_id      |-> <<"uuid4", current_date, seed, si, di, hour>>,
   station_id          |-> station.station_id,
   timestamp           |-> datetime(current_date + timedelta_hours(hour)),
   location            |-> station.location,
   temperature_celsius |-> round1(temp),
   humidity_percent    |-> random_uniform(weather_conditions[condition].hum_lo * 100,
                                          weather_conditions[condition].hum_hi * 100,
                                          seed, Site(6, si, di * 25 + hour, 4)),
   weather_condition   |-> condition]

\* lines 146-154
hist_observation_at(station, si, di, hour, current_date, sp, seed, temp) ==
  hist_observation(station, si, di, hour, current_date, temp,
                   generate_weather_condition(temp, sp.season, seed,
                                              Site(6, si, di * 25 + hour, 2)),
                   seed)

\* lines 142-172: the observations of one station and one day
hist_observations_of_hours(station, si, di, hours, current_date, sp, base_temp, seed) ==
  [k \in 1..Len(hours) |->
     hist_observation_at(station, si, di, hours[k], current_date, sp, seed,
                         base_temp + (5 * SinDay[hours[k] + 1])
                           + random_gauss0(sp.temp_variance * 10000, seed,
                                           Site(6, si, di * 25 + hours[k], 1)))]

hist_kept_hours(hours, si, di, seed) ==
  SelectSeq(hours, LAMBDA h : ~(random_random(seed, Site(6, si, di * 25 + h, 0)) < 5))

hist_observations_of_day(station, si, di, step, current_date, sp, seed) ==
  hist_observations_of_hours(station, si, di,
                             hist_kept_hours(range_0_24(step), si, di, seed),
                             current_date, sp,
                             elevation_adjusted(sp.base_temp, station.elevation_meters),
                             seed)

\* lines 134-174
RECURSIVE hist_observations_from_day(_, _, _, _, _, _, _)
hist_observations_from_day(station, si, di, step, current_date, end_date, seed) ==
  IF ~(current_date < end_date) THEN <<>>
  ELSE hist_observations_of_day(station, si, di, step, current_date,
                                get_seasonal_params(current_date), seed)
       \o hist_observations_from_day(station, si, di + 1, step,
                                     current_date + timedelta_days(1), end_date, seed)

\* the observations of a station, followed by those of the later stations
hist_join(obs, rest) ==
  IF rest.raised # None THEN rest
  ELSE [raised |-> None, observations |-> obs \o rest.observations]

\* lines 127-174
RECURSIVE hist_observations_from_station(_, _, _, _, _, _)
hist_observations_from_station(stations, si, start_date, end_date, obs_per_day, seed) ==
  IF si > Len(stations) THEN [raised |-> None, observations |-> <<>>]
  ELSE IF ~stations[si].active
  THEN hist_observations_from_station(stations, si + 1, start_date, end_date,
                                      obs_per_day, seed)
  ELSE IF step_raises(obs_per_day) # None
  THEN [raised |-> step_raises(obs_per_day), observations |-> <<>>]
  ELSE hist_join(
         hist_observations_from_day(stations[si], si, 0, 24 \div obs_per_day,
                                    start_date, end_date, seed),
         hist_observations_from_station(stations, si + 1, start_date, end_date,
                                        obs_per_day, seed))

hist_result(ctx, stations, observations) ==
  [ctx |-> ctx, stations |-> stations, observations |-> observations]

\* lines 177-181: what the insert raises is swallowed
hist_inserted(res, stations) ==
  IF res.ctx.raised # None
  THEN hist_result(catch(res.ctx, res.ctx.raised[1]), stations, res.data)
  ELSE hist_result(res.ctx, stations, res.data)

\* lines 126-181
hist_generate(c1, stations, gen, plan, now) ==
  IF gen.raised # None THEN hist_result(catch(c1, gen.raised[1]), stations, <<>>)
  ELSE hist_inserted(insert_data_to_bigquery(c1, "weather_observations",
                                             gen.observations, plan, now),
                     stations)

\* lines 100-124
hist_query(c1, stations, start_date, end_date, obs_per_day, plan, now, seed) ==
  IF last_out(c1) # "ok" THEN hist_result(catch(c1, last_out(c1)), <<>>, <<>>)
  ELSE IF stations = <<>> THEN hist_result(c1, stations, <<>>)
  ELSE hist_generate(c1, stations,
                     hist_observations_from_station(stations, 1, start_date, end_date,
                                                    obs_per_day, seed),
                     plan, now)

\* rows: the active rows in the order the query returns them
generate_historical_data(ctx, start_date, end_date, obs_per_day, rows, plan, now, seed) ==
  IF start_date >= end_date THEN hist_result(ctx, <<>>, <<>>)
  ELSE hist_query(call(ctx, "query:active", "weather_stations", plan),
                  [i \in 1..Len(rows) |-> station_of_row(rows[i])],
                  start_date, end_date, obs_per_day, plan, now, seed)

(***************************************************************************)
(* The record of the last operation: its arguments, the client calls it    *)
(* made, the exception it raised or swallowed, what it generated, the      *)
(* locals of its reconciliation, and what a helper called on its own       *)
(* returned.                                                               *)
(***************************************************************************)
NoArgs ==
  [num_stations |-> None, days |-> 0, cadence |-> 0, seed |-> 0,
   start_date |-> 0, end_date |-> 0, stations |-> <<>>]

LastOf(op, args, ctx, stations, observations, fires) ==
  [op                |-> op,
   args              |-> args,
   raised            |-> ctx.raised,
   caught            |-> ctx.caught,
   calls             |-> ctx.calls,
   stations          |-> stations,
   reconciled        |-> ctx.reconciled,
   existing_stations |-> ctx.existing_stations,
   new_stations      |-> ctx.new_stations,
   updated_stations  |-> ctx.updated_stations,
   observations      |-> observations,
   fires             |-> fires,
   coords            |-> <<>>,
   returned          |-> None]

StartClock == 24 * 200 + 13   \* 2024-07-19T13:00

Seeds == 0..(NumSeeds - 1)

\* a requested number of stations: None (the default), or an integer
CountInputs == {None} \cup {<<n>> : n \in (-1)..MaxCount}

\* the numbers of stations of the runs against the store
StoreCounts == {<<n>> : n \in 0..MaxCount}

\* the plans of the longer commands: at most one of their client calls raises
FailOnce == {{}} \cup {{<<k, kind>>} : k \in 1..(2 * MaxCallIndex), kind \in Kinds}

\* the operations that generate stations, by generator class
WdgOps == {"stations", "all", "generate_weather_stations"}

WgOps == {"generate_all", "create_stations"}

\* the identities an operation has generated: the generator class, the index
\* and the name of the catalog entry, the station_id, and the invocation (its
\* time and its seed)
IdentitiesOf(op, stations, now, seed) ==
  IF op \in WdgOps
  THEN {[generator |-> "WeatherDataGenerator", index |-> i,
         name |-> station_templates[i].name, station_id |-> stations[i].station_id,
         now |-> now, seed |-> seed] : i \in 1..Len(stations)}
  ELSE IF op \in WgOps
  THEN {[generator |-> "WeatherGenerator", index |-> i,
         name |-> stations_data[i].name, station_id |-> stations[i].station_id,
         now |-> now, seed |-> seed] : i \in 1..Len(stations)}
  ELSE {}

\* an upsert that has not started
IdleUpsert ==
  [pc |-> "idle", data |-> <<>>, existing_stations |-> {}, new_stations |-> <<>>,
   updated_stations |-> <<>>, i |-> 1]

Init ==
  /\ generated = {}
  /\ upserts = [p \in 1..NumRuns |-> IdleUpsert]
  /\ clock = StartClock
  /\ weather_stations = EmptyBag
  /\ weather_observations = EmptyBag
  /\ fire_records = EmptyBag
  /\ last = LastOf("init", NoArgs, ctx_start(EmptyBag, EmptyBag, EmptyBag),
                   <<>>, <<>>, <<>>)

\* the operation is over: the tables are what it left, an hour has passed
Commit(op, args, ctx, stations, observations, fires) ==
  /\ weather_stations' = ctx.st
  /\ weather_observations' = ctx.obs
  /\ fire_records' = ctx.fire
  /\ last' = LastOf(op, args, ctx, stations, observations, fires)
  /\ generated' = generated \cup IdentitiesOf(op, stations, clock, args.seed)
  /\ clock' = clock + 1
  /\ UNCHANGED upserts

Start == ctx_start(weather_stations, weather_observations, fire_records)

(***************************************************************************)
(* python batch_data_generator.py stations --count num                     *)
(***************************************************************************)
CommitStations(num, seed, res) ==
  Commit("stations", [NoArgs EXCEPT !.num_stations = num, !.seed = seed],
         res.ctx, res.data, <<>>, <<>>)

StationsOnlyOf(num, seed, stations) ==
  \E plan \in Plans :
    CommitStations(num, seed, generate_stations_only(Start, stations, plan, clock))

StationsOnly ==
  \E num \in StoreCounts, seed \in Seeds :
    /\ clock < StartClock + MaxOps
    /\ StationsOnlyOf(num, seed, generate_weather_stations(num, clock, seed))

\* python batch_data_generator.py cleanup
Cleanup ==
  \E plan \in Plans, keep \in KeepChoices(weather_stations) :
    /\ clock < StartClock + MaxOps
    /\ Commit("cleanup", NoArgs,
              cleanup_duplicate_stations(Start, plan, keep), <<>>, <<>>, <<>>)

Next == StationsOnly \/ Cleanup

\* any sequence of station runs and cleanups against one store
Spec == Init /\ [][Next]_vars

(***************************************************************************)
(* The station command run twice against one store.                        *)
(***************************************************************************)
FirstRun ==
  \E num \in StoreCounts, seed \in Seeds :
    /\ last.op = "init"
    /\ StationsOnlyOf(num, seed, generate_weather_stations(num, clock, seed))

SecondRun ==
  \E num \in StoreCounts, seed \in Seeds :
    /\ last.op = "stations"
    /\ clock = StartClock + 1
    /\ StationsOnlyOf(num, seed, generate_weather_stations(num, clock, seed))

NextTwoRuns == FirstRun \/ SecondRun

SpecTwoRuns == Init /\ [][NextTwoRuns]_vars

(***************************************************************************)
(* The generators called on their own.  Nothing touches the store.         *)
(***************************************************************************)
Generated(op, args, raised, stations, observations, fires, coords) ==
  /\ last' = [LastOf(op, args, ctx_start(EmptyBag, EmptyBag, EmptyBag),
                     stations, observations, fires)
                EXCEPT !.raised = raised, !.coords = coords]
  /\ generated' = generated \cup IdentitiesOf(op, stations, clock, args.seed)
  /\ clock' = clock + 1
  /\ UNCHANGED <<weather_stations, weather_observations, fire_records, upserts>>

\* generator.generate_weather_stations(num)
GenerateWeatherStations ==
  \E num \in CountInputs, seed \in Seeds :
    /\ clock \in {StartClock, StartClock + 1}
    /\ Generated("generate_weather_stations",
                 [NoArgs EXCEPT !.num_stations = num, !.seed = seed], None,
                 generate_weather_stations(num, clock, seed), <<>>, <<>>, <<>>)

\* generator.create_stations(count)
CreateStations ==
  \E count \in CountInputs, seed \in Seeds :
    /\ clock \in {StartClock, StartClock + 1}
    /\ Generated("create_stations",
                 [NoArgs EXCEPT !.num_stations = count, !.seed = seed], None,
                 create_stations(count, clock, seed), <<>>, <<>>, <<>>)

NextIdentity == GenerateWeatherStations \/ CreateStations

\* station generation invoked twice, by either generator
SpecIdentity == Init /\ [][NextIdentity]_vars

\* location strings that are not the WKT text of a point
LocationInputs ==
  {<<"P","O","I","N","T","(","x"," ","y",")">>,
   <<"P","O","I","N","T","(",")">>,
   <<"8",".","5"," ","5","0",".","1">>,
   <<"n","o","w","h","e","r","e">>}

\* a station list a caller passes: generated stations, one of them possibly
\* with another location string
StationInputs(stations) ==
  {stations} \cup {[stations EXCEPT ![i].location = loc] :
                     i \in 1..Len(stations), loc \in LocationInputs}

InputCounts == {<<n>> : n \in 0..MaxInputStations}

DayInputs == (-1)..MaxDays

\* observations_per_day: none, the cadences up to MaxCadence, and one above 24
CadenceInputs == (0..MaxCadence) \cup {25}

GenerateObservationsOf(stations, days, cadence, seed, gen) ==
  Generated("generate_weather_observations",
            [NoArgs EXCEPT !.days = days, !.cadence = cadence, !.seed = seed,
                           !.stations = stations],
            gen.raised, stations, gen.observations, <<>>, gen.coords)

\* generator.generate_weather_observations(stations, days, observations_per_day)
GenerateObservations ==
  \E num \in InputCounts, seed \in Seeds, days \in DayInputs, cadence \in CadenceInputs :
    \E stations \in StationInputs(generate_weather_stations(num, clock, seed)) :
      /\ last.op = "init"
      /\ GenerateObservationsOf(stations, days, cadence, seed,
           generate_weather_observations(stations, days, cadence, seed, clock))

\* the station lists of a caller of create_observations that has marked one
\* of the stations as inactive
InactiveInputs(stations) ==
  {[stations EXCEPT ![i].active = FALSE] : i \in 1..Len(stations)}

\* generator.create_observations(stations, days)
CreateObservations ==
  \E num \in InputCounts, seed \in Seeds, days \in DayInputs :
    \E stations \in StationInputs(create_stations(num, clock, seed))
                      \cup InactiveInputs(create_stations(num, clock, seed)) :
      /\ last.op = "init"
      /\ Generated("create_observations",
                   [NoArgs EXCEPT !.days = days, !.seed = seed, !.stations = stations],
                   None, stations, create_observations(stations, days, seed, clock),
                   <<>>, <<>>)

NextObservations == GenerateObservations \/ CreateObservations

\* one call of an observation generator
SpecObservations == Init /\ [][NextObservations]_vars

CreateFireRecordsOf(stations, days, seed, gen) ==
  Generated("create_fire_records",
            [NoArgs EXCEPT !.days = days, !.seed = seed, !.stations = stations],
            gen.raised, stations, <<>>, gen.fire_records, <<>>)

\* the states of the random source the fire runs start from
FireSeeds == 0..(8 * NumSeeds - 1)

\* generator.create_fire_records(stations, days)
CreateFireRecords ==
  \E num \in InputCounts, seed \in FireSeeds, days \in DayInputs :
    \E stations \in StationInputs(create_stations(num, clock, seed)) :
      /\ last.op = "init"
      /\ CreateFireRecordsOf(stations, days, seed,
                             create_fire_records(stations, days, seed, clock))

NextFires == CreateFireRecords

\* one call of the fire-record generator
SpecFires == Init /\ [][NextFires]_vars

(***************************************************************************)
(* The commands that generate and store everything.                        *)
(***************************************************************************)
FullRunOf(num, days, cadence, seed, plan) ==
  LET res == generate_and_insert_all_data(
               Start, generate_weather_stations(num, clock, seed), days, cadence,
               plan, clock, seed)
  IN Commit("all", [NoArgs EXCEPT !.num_stations = num, !.days = days,
                                  !.cadence = cadence, !.seed = seed],
            res.ctx, res.stations, res.observations, <<>>)

\* python batch_data_generator.py all --stations num --days days --obs-per-day cadence
FullRun ==
  \E num \in StoreCounts, days \in DayInputs, cadence \in CadenceInputs,
     seed \in Seeds, plan \in FailOnce :
    /\ last.op = "init"
    /\ FullRunOf(num, days, cadence, seed, plan)

GenerateAllOf(num, days, seed, plan) ==
  LET res == generate_all(Start, create_stations(num, clock, seed), days, plan,
                          clock, seed)
  IN Commit("generate_all", [NoArgs EXCEPT !.num_stations = num, !.days = days,
                                           !.seed = seed],
            res.ctx, res.stations, res.observations, res.fires)

\* python generate_data.py --stations num --days days
GenerateAll ==
  \E num \in StoreCounts, days \in DayInputs, seed \in Seeds, plan \in FailOnce :
    /\ last.op = "init"
    /\ GenerateAllOf(num, days, seed, plan)

\* midnight of the day n days before today
Midnight(n) == timedelta_days(date_of(clock) - n)

HistoricalOf(start_date, end_date, cadence, rows, seed, plan) ==
  LET res == generate_historical_data(Start, start_date, end_date, cadence, rows,
                                      plan, clock, seed)
  IN Commit("historical", [NoArgs EXCEPT !.start_date = start_date,
                                         !.end_date = end_date,
                                         !.cadence = cadence, !.seed = seed],
            res.ctx, res.stations, res.observations, <<>>)

\* python batch_data_generator.py historical --start-date .. --end-date ..
Historical ==
  \E a \in 0..MaxDays, b \in 0..MaxDays, cadence \in CadenceInputs, seed \in Seeds,
     plan \in Plans, rows \in RowOrders(select_active_stations(weather_stations)) :
    /\ last.op \in {"init", "stations"}
    /\ HistoricalOf(Midnight(a), Midnight(b), cadence, rows, seed, plan)

NextCommands == FirstRun \/ FullRun \/ GenerateAll \/ Historical

\* one command against an empty store, or against the store a station run left
SpecCommands == Init /\ [][NextCommands]_vars


(***************************************************************************)
(* The helpers of the generators called on their own.                      *)
(***************************************************************************)
Returned(op, args, value) ==
  /\ last' = [LastOf(op, args, ctx_start(EmptyBag, EmptyBag, EmptyBag),
                     <<>>, <<>>, <<>>)
                EXCEPT !.returned = value]
  /\ clock' = clock + 1
  /\ UNCHANGED <<weather_stations, weather_observations, fire_records, generated,
                 upserts>>

\* the dates of 2024, a leap year, and of 2025, at midnight and at 13:00
DateInputs == {timedelta_days(d) + h : d \in 0..(366 + 365 - 1), h \in {0, 13}}

\* generator.get_seasonal_params(date)
GetSeasonalParams ==
  \E t \in DateInputs :
    /\ last.op = "init"
    /\ Returned("get_seasonal_params", [NoArgs EXCEPT !.start_date = t],
                get_seasonal_params(t))

\* elevations of stations, in metres
ElevationInputs == {0, 1, 50, 519, 1000, 2962}

\* the base temperatures the day loop of generate_weather_observations has
\* for a station of this elevation, and the adjustment create_observations
\* makes for it
BaseTemps ==
  \E elevation \in ElevationInputs, days \in 1..(MaxDays + 1) :
    /\ last.op = "init"
    /\ Returned("base_temps",
                [NoArgs EXCEPT !.days = days,
                               !.start_date = clock - timedelta_days(days)],
                [elevation  |-> elevation,
                 base_temps |-> base_temps_from_day(elevation,
                                                    clock - timedelta_days(days), clock),
                 elevation_adjustment |-> wg_elevation_adjustment(elevation)])

\* temperatures in 1/10000 degree: every whole degree from -12 to 30, and
\* the value just below it
TempInputs == {d * 10000 - o : d \in (-12)..30, o \in {0, 1}}

\* the places of the random source a call may draw at
DrawInputs == 0..7

\* generator.generate_weather_condition(temp, season)
GenerateWeatherCondition ==
  \E temp \in TempInputs, season \in {"spring", "summer", "autumn", "winter"},
     seed \in Seeds, n \in DrawInputs :
    /\ last.op = "init"
    /\ Returned("generate_weather_condition", [NoArgs EXCEPT !.seed = seed],
                [temp |-> temp, season |-> season,
                 condition |-> generate_weather_condition(temp, season, seed, n)])

\* generator._get_weather_condition(temp)
GetWeatherCondition ==
  \E temp \in TempInputs, seed \in Seeds, n \in DrawInputs :
    /\ last.op = "init"
    /\ Returned("_get_weather_condition", [NoArgs EXCEPT !.seed = seed],
                [temp |-> temp, season |-> "",
                 condition |-> wg_get_weather_condition(temp, seed, n)])

\* simulated conditions around the thresholds of the fire weather risk:
\* temperatures in 1/10000 degree, humidities in 1/100 percent, wind speeds
\* in 1/100 m/s, days since rain
RiskTempInputs == {-100000, 200000, 250000, 250001, 300000, 300001, 400000}

RiskHumidityInputs == {0, 2999, 3000, 4000, 4999, 5000, 8000}

RiskWindInputs == {0, 500, 1000, 1001, 1500, 1501, 2679}

RiskRainInputs == {0, 10, 11, 20, 21, 30}

\* generator._calculate_fire_weather_risk, for the conditions it simulated
CalculateFireWeatherRisk ==
  \E temp \in RiskTempInputs, humidity \in RiskHumidityInputs,
     wind_speed \in RiskWindInputs, days_since_rain \in RiskRainInputs :
    /\ last.op = "init"
    /\ Returned("_calculate_fire_weather_risk", NoArgs,
                [temp |-> temp, humidity |-> humidity, wind_speed |-> wind_speed,
                 days_since_rain |-> days_since_rain,
                 risk_multiplier |-> risk_multiplier_of(temp, humidity, wind_speed,
                                                        days_since_rain)])

\* the regions of high_risk_regions, and a state that is not among them
RegionInputs ==
  {"Brandenburg", "Lower Saxony", "Bavaria", "Saxony", "Hesse",
   "North Rhine-Westphalia", "Baden-Wuerttemberg", "Unknown"}

\* the weather multipliers the conditions above give
MultiplierInputs ==
  {risk_multiplier_of(temp, humidity, wind_speed, days_since_rain) :
     temp \in RiskTempInputs, humidity \in RiskHumidityInputs,
     wind_speed \in RiskWindInputs, days_since_rain \in RiskRainInputs}

\* the value create_fire_records compares its draw with, for a station of
\* this state on a day of this month under this weather multiplier
DailyFireRisk ==
  \E state \in RegionInputs, month \in 1..12, weather_multiplier \in MultiplierInputs :
    /\ last.op = "init"
    /\ Returned("daily_fire_risk", NoArgs,
                [state |-> state, month |-> month,
                 weather_multiplier |-> weather_multiplier,
                 daily_fire_risk |->
                   combined_fire_risk(base_risk_of(state),
                                      wg_get_seasonal_fire_multiplier(month),
                                      weather_multiplier)])

NextHelpers ==
  \/ GetSeasonalParams \/ BaseTemps \/ GenerateWeatherCondition \/ GetWeatherCondition
  \/ CalculateFireWeatherRisk \/ DailyFireRisk

\* one call of a helper
SpecHelpers == Init /\ [][NextHelpers]_vars

(***************************************************************************)
(* A full run of either generator against the store an earlier full run    *)
(* left.                                                                   *)
(***************************************************************************)
\* the earlier run: one station, one day, every store call succeeding
EarlierRun ==
  \E seed \in Seeds :
    /\ last.op = "init"
    /\ \/ FullRunOf(<<1>>, 1, 4, seed, {})
       \/ GenerateAllOf(<<1>>, 1, seed, {})

LaterRun ==
  \E num \in StoreCounts, days \in 0..1, cadence \in {1, 4}, seed \in Seeds,
     plan \in FailOnce :
    /\ last.op \in {"all", "generate_all"}
    /\ clock = StartClock + 1
    /\ \/ FullRunOf(num, days, cadence, seed, plan)
       \/ GenerateAllOf(num, days, seed, plan)

NextAppend == EarlierRun \/ LaterRun

SpecAppend == Init /\ [][NextAppend]_vars

(***************************************************************************)
(* Station upserts that run side by side against one store, for instance   *)
(* two invocations of the station command.  Every client call is one step; *)
(* the steps of the runs interleave.  Every call succeeds.                 *)
(***************************************************************************)
\* the step of an upsert after its reconciliation (lines 300, 312)
upsert_after_query(new_stations, updated_stations) ==
  IF new_stations # <<>> THEN "load"
  ELSE IF updated_stations # <<>> THEN "update" ELSE "done"

\* generate_stations_only up to the call of _upsert_weather_stations: the
\* stations are generated, get_table returns, the datetimes are converted
UpsertStart(p) ==
  \E num \in StoreCounts, seed \in Seeds :
    /\ upserts[p].pc = "idle"
    /\ upserts' = [upserts EXCEPT ![p].pc = "query",
                     ![p].data = [i \in 1..Len(generate_weather_stations(num, clock, seed))
                                    |-> iso_row(generate_weather_stations(num, clock,
                                                                          seed)[i])]]
    /\ UNCHANGED <<clock, weather_stations, weather_observations, fire_records, last,
                   generated>>

\* lines 281-297: the existing ids are read and the stations are split
UpsertQuery(p) ==
  /\ upserts[p].pc = "query"
  /\ upserts' =
       [upserts EXCEPT
          ![p].existing_stations = select_station_ids(weather_stations),
          ![p].new_stations =
             reconcile_new(upserts[p].data, select_station_ids(weather_stations)),
          ![p].updated_stations =
             reconcile_updated(upserts[p].data, select_station_ids(weather_stations)),
          ![p].pc =
             upsert_after_query(
               reconcile_new(upserts[p].data, select_station_ids(weather_stations)),
               reconcile_updated(upserts[p].data, select_station_ids(weather_stations)))]
  /\ UNCHANGED <<clock, weather_stations, weather_observations, fire_records, last,
                 generated>>

\* lines 300-308: the load job of the new stations
UpsertLoad(p) ==
  /\ upserts[p].pc = "load"
  /\ loadable_stations(upserts[p].new_stations)
  /\ weather_stations' = load_stations(weather_stations, upserts[p].new_stations)
  /\ upserts' = [upserts EXCEPT
                   ![p].pc = upsert_after_query(<<>>, upserts[p].updated_stations)]
  /\ UNCHANGED <<clock, weather_observations, fire_records, last, generated>>

\* lines 321-360: the UPDATE of the next station to update
UpsertUpdate(p) ==
  /\ upserts[p].pc = "update"
  /\ update_parse_location(upserts[p].updated_stations[upserts[p].i].location).raised
       = None
  /\ weather_stations' =
       sql_update_station(
         weather_stations, upserts[p].updated_stations[upserts[p].i],
         update_parse_location(upserts[p].updated_stations[upserts[p].i].location).lon,
         update_parse_location(upserts[p].updated_stations[upserts[p].i].location).lat,
         clock)
  /\ upserts' = [upserts EXCEPT
                   ![p].i = @ + 1,
                   ![p].pc = IF upserts[p].i = Len(upserts[p].updated_stations)
                             THEN "done" ELSE "update"]
  /\ UNCHANGED <<clock, weather_observations, fire_records, last, generated>>

NextInterleaved ==
  \E p \in 1..NumRuns :
    UpsertStart(p) \/ UpsertQuery(p) \/ UpsertLoad(p) \/ UpsertUpdate(p)

\* station upserts against an empty store, interleaved in every way
SpecInterleaved == Init /\ [][NextInterleaved]_vars

(***************************************************************************)
(* batch_data_generator.clear_all_data and generate_data.clear_data: two   *)
(* DELETE statements in one try block.  Each statement is a step, so that  *)
(* the store between the two is a state.                                   *)
(***************************************************************************)
\* a faulty variant of clear_order: the stations are deleted first
clear_order_stations_first == <<"weather_stations", "weather_observations">>

\* the tables in the order of their DELETE statements (batch_data_generator.py
\* lines 197 and 203, generate_data.py lines 46 and 51)
clear_order == <<"weather_observations", "weather_stations">>

\* DELETE FROM table WHERE TRUE
sql_delete_all(ctx, table) ==
  IF table = "weather_observations" THEN [ctx EXCEPT !.obs = EmptyBag]
  ELSE [ctx EXCEPT !.st = EmptyBag]

\* one DELETE of the try block; the except clause swallows what it raises
clear_query(c, table) ==
  IF last_out(c) # "ok" THEN catch(c, last_out(c)) ELSE sql_delete_all(c, table)

\* the two functions that clear the store
ClearOps == {"clear_all_data", "clear_data"}

\* the first or the second client call of the operation raises, or none
ClearPlans == {{}} \cup {{<<k, kind>>} : k \in 1..2, kind \in Kinds}

\* a full run of either generator that fills the empty store
PopulatingRun ==
  \E num \in StoreCounts, days \in 0..1, seed \in Seeds, plan \in FailOnce :
    /\ last.op = "init"
    /\ \/ FullRunOf(num, days, 1, seed, plan)
       \/ GenerateAllOf(num, days, seed, plan)

\* the question is answered; if with yes, the first DELETE is run
ClearFirst ==
  \E op \in ClearOps, confirm \in BOOLEAN, plan \in ClearPlans :
    /\ last.op \in {"all", "generate_all"}
    /\ Commit(op, NoArgs,
              IF confirm
              THEN clear_query(call(Start, "query:delete", clear_order[1], plan),
                               clear_order[1])
              ELSE Start,
              <<>>, <<>>, <<>>)

\* the second DELETE, reached when the first has not raised
ClearSecond ==
  \E plan \in ClearPlans :
    /\ last.op \in ClearOps
    /\ Len(last.calls) = 1
    /\ last.caught = None
    /\ Commit(last.op, NoArgs,
              clear_query(call([Start EXCEPT !.k = 2, !.calls = last.calls],
                               "query:delete", clear_order[2], plan),
                          clear_order[2]),
              <<>>, <<>>, <<>>)

NextClear == PopulatingRun \/ ClearFirst \/ ClearSecond

\* the store is filled by a full run and then cleared
SpecClear == Init /\ [][NextClear]_vars

(***************************************************************************)
(* generate_weather_observations for every cadence of 1..24, for short     *)
(* ranges and for ranges that start before the first datetime.             *)
(***************************************************************************)
\* day counts whose range starts before datetime.min when the call is made
\* in 2024: 740000 and 800000 days are more than the 738885 days and the
\* days of 2024 that lie behind the call
LongDayInputs == {740000, 800000}

\* day counts of short ranges
ShortDayInputs == {0, 1, 2}

\* the station list as generated, and with a first station whose location
\* is no WKT point
TerminationStations(stations) ==
  {stations} \cup {[stations EXCEPT ![i].location = <<"n","o","w","h","e","r","e">>] :
                     i \in 1..Min(1, Len(stations))}

\* generator.generate_weather_observations(stations, days, observations_per_day)
GenerateObservationsOfAnyCadence ==
  \E num \in InputCounts, seed \in Seeds, days \in ShortDayInputs \cup LongDayInputs,
     cadence \in 1..24 :
    \E stations \in TerminationStations(generate_weather_stations(num, clock, seed)) :
      /\ last.op = "init"
      /\ GenerateObservationsOf(stations, days, cadence, seed,
           generate_weather_observations(stations, days, cadence, seed, clock))

\* one call of generate_weather_observations
SpecTermination == Init /\ [][GenerateObservationsOfAnyCadence]_vars
(***************************************************************************)
(* Properties.                                                             *)
(***************************************************************************)
\* every client call of the last operation succeeded
AllCallsOk(calls) == \A i \in 1..Len(calls) : calls[i][3] = "ok"

\* C1: idempotence of reconciliation.  When the station command has run to
\* the end with every store call succeeding, and is run again against the
\* same store with the same requested count, the second run inserts
\* nothing: whenever it reconciles, its stations to insert are empty and
\* every generated station is among its stations to update.
C1_SecondRunInsertsNothing ==
  [][(/\ last.op = "stations" /\ last'.op = "stations"
      /\ last.raised = None /\ last.reconciled /\ AllCallsOk(last.calls)
      /\ last'.args.num_stations = last.args.num_stations
      /\ last'.reconciled)
     => (/\ last'.new_stations = <<>>
         /\ last'.updated_stations = last'.stations)]_vars

\* C2: the upsert prevents duplicates.  After any sequence of station runs
\* from an empty table, whichever store calls failed, no two rows of the
\* station table have the same station_id.
C2_NoDuplicateStationId ==
  \A r \in BagToSet(weather_stations) :
    /\ weather_stations[r] = 1
    /\ \A q \in BagToSet(weather_stations) : q.station_id = r.station_id => q = r

\* C3: cleanup leaves one survivor per group.  After a cleanup whose store
\* calls all succeeded, every (station_name, location) group that had a row
\* has exactly one row left, and that row has the greatest created_at of
\* the group.
C3_CleanupLeavesLatestOfEachGroup ==
  [][(last'.op = "cleanup" /\ AllCallsOk(last'.calls))
     => \A g \in {group_key(r) : r \in BagToSet(weather_stations)} :
          /\ BagCardinality(group_rows(weather_stations', g)) = 1
          /\ \A s \in BagToSet(group_rows(weather_stations', g)) :
               \A r \in BagToSet(group_rows(weather_stations, g)) :
                 r.created_at[1] <= s.created_at[1]]_vars

\* C4: station identity is deterministic.  Within a generator, all the
\* identities generated so far, by whatever invocation (time, seed,
\* requested count), give one catalog entry (index and name) one
\* station_id, and give distinct catalog entries distinct station_ids.
C4_StationIdDeterminedByCatalogEntry ==
  \A a \in generated : \A b \in generated :
    a.generator = b.generator
      => ((a.index = b.index /\ a.name = b.name) <=> a.station_id = b.station_id)

\* two invocations with different seeds generated the same catalog entry, and
\* one invocation generated two entries
C4_Witness ==
  /\ \E a \in generated : \E b \in generated :
       /\ a.generator = b.generator /\ a.index = b.index
       /\ a.now # b.now /\ a.seed # b.seed
  /\ \E a \in generated : \E b \in generated :
       a.generator = b.generator /\ a.now = b.now /\ a.index # b.index

\* C5: reconcile partitions the generated stations.  When a run has
\* reconciled, the stations to insert and the stations to update are
\* disjoint, together they hold every generated station exactly once, and a
\* station is to update exactly when its station_id is among the ids read
\* from the store.
C5_ReconcilePartitions ==
  last.reconciled =>
    /\ BagOfSeq(last.new_stations) (+) BagOfSeq(last.updated_stations)
         = BagOfSeq(last.stations)
    /\ \A i \in 1..Len(last.new_stations) : \A j \in 1..Len(last.updated_stations) :
         last.new_stations[i] # last.updated_stations[j]
    /\ \A i \in 1..Len(last.stations) :
         (\E j \in 1..Len(last.updated_stations) :
            last.updated_stations[j] = last.stations[i])
           <=> last.stations[i].station_id \in last.existing_stations

\* a run that found persisted ids and split its stations into both parts
C5_Witness ==
  /\ last.reconciled
  /\ last.existing_stations # {}
  /\ last.new_stations # <<>>
  /\ last.updated_stations # <<>>

\* the observations of the last operation that belong to station-day di of
\* the station with this id: day di starts di days after now - days
ObservationsOfStationDay(station_id, di) ==
  SelectSeq(last.observations,
            LAMBDA o : /\ o.station_id = station_id
                       /\ (o.timestamp[2] - ((clock - 1) - timedelta_days(last.args.days)))
                            \div 24 = di)

\* C6: at most cadencePerDay observations per station-day.  Whenever
\* generate_weather_observations returns, for a cadence of at least 1, no
\* station has more observations in one day of the range than the cadence.
C6_AtMostCadencePerStationDay ==
  (/\ last.op = "generate_weather_observations"
   /\ last.raised = None
   /\ last.args.cadence >= 1)
    => \A i \in 1..Len(last.stations) : \A di \in 0..(last.args.days - 1) :
         Len(ObservationsOfStationDay(last.stations[i].station_id, di))
           <= last.args.cadence

\* C7: containment follows ignition.  Every fire record generated has its
\* containment_date 1 to 14 days after its fire_date.
C7_ContainmentAfterFire ==
  \A i \in 1..Len(last.fires) :
    /\ last.fires[i].containment_date[2] > last.fires[i].fire_date[2]
    /\ last.fires[i].containment_date[2] - last.fires[i].fire_date[2] \in 1..14

\* fire records were generated, for more than one station-day
C7_Witness ==
  /\ last.op = "create_fire_records"
  /\ last.raised = None
  /\ Len(last.fires) >= 2
  /\ \E i \in 1..Len(last.fires) : \E j \in 1..Len(last.fires) :
       last.fires[i].fire_date # last.fires[j].fire_date

Conditions == {"sunny", "partly_cloudy", "cloudy", "rainy", "stormy", "snowy", "foggy"}

\* the cadence of the last observation generator: create_observations has
\* four fixed hours
CadenceOfLast ==
  IF last.op = "create_observations" THEN 4 ELSE last.args.cadence

\* C8: for a station list S, d days and cadence c, every observation
\* generated carries the station_id of a station of S and one of the seven
\* conditions, and there are at most |S|*d*c observations.
C8_ObservationsWithinStationsAndCount ==
  (/\ last.op \in {"generate_weather_observations", "create_observations"}
   /\ last.raised = None
   /\ last.args.days >= 0
   /\ CadenceOfLast >= 1)
    => /\ \A k \in 1..Len(last.observations) :
            /\ \E i \in 1..Len(last.stations) :
                 last.observations[k].station_id = last.stations[i].station_id
            /\ last.observations[k].weather_condition \in Conditions
       /\ Len(last.observations)
            <= Len(last.stations) * last.args.days * CadenceOfLast

\* C9: an unparseable location never aborts.  The generators that parse the
\* location of a station (observation generation, fire-record generation)
\* raise nothing about it, whatever the location strings of the stations
\* they are given: the operation returns and the exception it may raise is
\* not one of the parsing.
C9_UnparseableLocationNeverAborts ==
  /\ last.op = "create_fire_records" => last.raised = None
  /\ (last.op = "generate_weather_observations" /\ last.args.cadence \in 1..24)
       => last.raised = None

\* C10: an invalid date range is rejected before any work.  A historical
\* command whose start date is not before its end date, and a full run
\* whose day count is not positive, make no client call, generate nothing
\* and leave every table as it was.
C10_InvalidRangeRejectedBeforeAnyWork ==
  [][((last'.op = "historical" /\ last'.args.start_date >= last'.args.end_date)
      \/ (last'.op = "all" /\ last'.args.days <= 0))
     => (/\ last'.calls = <<>>
         /\ last'.stations = <<>>
         /\ last'.observations = <<>>
         /\ UNCHANGED <<weather_stations, weather_observations, fire_records>>)]_vars


\* C11: a store failure is reported to the caller.  Whenever a client call
\* of a station command with a batch to store (the query for the existing ids, get_table, the
\* load job, a per-row update) has failed, the command ends with an
\* exception raised to its caller and not with a normal return.
C11_StoreFailureReportedToCaller ==
  (last.op = "stations" /\ last.stations # <<>> /\ ~AllCallsOk(last.calls))
    => last.raised # None

\* the load jobs the last operation submitted for this table
LoadCalls(table) ==
  {i \in 1..Len(last.calls) : last.calls[i][1] = "load" /\ last.calls[i][2] = table}

\* C12: each batch is submitted at most once per run.  A full run of either
\* generator submits at most one load job for each of the tables
\* weather_stations, weather_observations and fire_records.
C12_EachBatchLoadedAtMostOnce ==
  last.op \in {"all", "generate_all"}
    => \A t \in {"weather_stations", "weather_observations", "fire_records"} :
         Cardinality(LoadCalls(t)) <= 1

\* the day of the year of the date the last helper was called with
DayOfYearOfLast == tm_yday(date_of(last.args.start_date))

\* C13: the season bands.  For every date, get_seasonal_params gives the
\* season of the day of the year: 80..172 spring, 173..266 summer, 267..355
\* autumn, every other day of 1..366 winter; and the variance 8 for spring
\* and autumn, 5 for summer and winter.
C13_SeasonBandsByDayOfYear ==
  last.op = "get_seasonal_params" =>
    /\ DayOfYearOfLast \in 1..366
    /\ last.returned.season =
         (IF DayOfYearOfLast \in 80..172 THEN "spring"
          ELSE IF DayOfYearOfLast \in 173..266 THEN "summer"
          ELSE IF DayOfYearOfLast \in 267..355 THEN "autumn"
          ELSE "winter")
    /\ last.returned.temp_variance =
         (IF last.returned.season \in {"spring", "autumn"} THEN 8 ELSE 5)

\* the first day of summer of a leap year gives summer
C13_Witness ==
  /\ last.op = "get_seasonal_params"
  /\ DayOfYearOfLast = 173
  /\ date_of(last.args.start_date) < 366
  /\ last.returned.season = "summer"
  /\ last.returned.temp_variance = 5

\* the seasonal base temperature of day di of the last run, before adjustment
SeasonalBaseOfDay(di) ==
  get_seasonal_params(last.args.start_date + timedelta_days(di - 1)).base_temp

\* C14: the lapse rate.  The base temperature of every day of a station is
\* the seasonal base temperature of that day less 6.5 degrees per 1000 m of
\* elevation (in 1/10000 degree: 65 per metre), whatever days came before;
\* a higher station has a strictly lower one on the same day; elevation
\* 1000 m and base 10 give 3.5; create_observations adds the same amount.
C14_LapseRateOncePerDay ==
  last.op = "base_temps" =>
    /\ Len(last.returned.base_temps) = last.args.days
    /\ \A di \in 1..Len(last.returned.base_temps) :
         /\ last.returned.base_temps[di]
              = SeasonalBaseOfDay(di) - (65 * last.returned.elevation)
         /\ \A e \in ElevationInputs :
              e > last.returned.elevation
                => elevation_adjusted(SeasonalBaseOfDay(di), e)
                     < last.returned.base_temps[di]
    /\ elevation_adjusted(100000, 1000) = 35000
    /\ last.returned.elevation_adjustment = -(65 * last.returned.elevation)

\* a station at 1000 m over more than one day
C14_Witness ==
  /\ last.op = "base_temps"
  /\ last.returned.elevation = 1000
  /\ Len(last.returned.base_temps) >= 2
  /\ last.returned.base_temps[1] # last.returned.base_temps[2]

\* C15: fire ids come from a counter.  The k-th record a fire run emits has
\* the fire_id of the number k (FIRE_0001, FIRE_0002, ...), so the ids of a
\* run are pairwise distinct, increase in emission order and have no gaps,
\* whatever station-days had no ignition.
C15_FireIdsCountFromOne ==
  last.op = "create_fire_records" =>
    /\ \A k \in 1..Len(last.fires) :
         last.fires[k].fire_id = FIRE_PREFIX \o format_04d(k)
    /\ \A j \in 1..Len(last.fires) : \A k \in 1..Len(last.fires) :
         j # k => last.fires[j].fire_id # last.fires[k].fire_id

\* a run with several ignitions and a station-day without one
C15_Witness ==
  /\ last.op = "create_fire_records"
  /\ Len(last.fires) >= 2
  /\ Len(last.fires) < Len(last.stations) * last.args.days
  /\ last.fires[2].fire_id = <<"F","I","R","E","_","0","0","0","2">>

\* the candidate set of the band of a temperature, in 1/10000 degree
BandCandidates(temp) ==
  IF temp < -50000 THEN {"snowy", "cloudy", "foggy"}
  ELSE IF temp < 50000 THEN {"cloudy", "foggy", "rainy", "partly_cloudy"}
  ELSE IF temp < 150000 THEN {"cloudy", "rainy", "partly_cloudy", "sunny"}
  ELSE IF temp < 250000 THEN {"sunny", "partly_cloudy", "cloudy"}
  ELSE {"sunny", "partly_cloudy"}

\* C16: the classifier stays within the band.  For every temperature and
\* season, the condition either generator's classifier returns is a member
\* of the candidate set of the band of the temperature, the bounds -5, 5,
\* 15 and 25 belonging to the band above them.
C16_ConditionWithinBand ==
  last.op \in {"generate_weather_condition", "_get_weather_condition"}
    => last.returned.condition \in BandCandidates(last.returned.temp)

\* the place in the input of the station an observation belongs to
StationIndexOf(station_id) ==
  CHOOSE i \in 1..Len(last.stations) : last.stations[i].station_id = station_id

\* C17: the observations are ordered by station, then time.  In the sequence
\* either observation generator returns, an observation of an earlier input
\* station never follows one of a later station, and of two observations of
\* one station the later in the sequence has the later timestamp.
C17_OrderedByStationThenTime ==
  (/\ last.op \in {"generate_weather_observations", "create_observations"}
   /\ last.raised = None)
    => \A j \in 1..Len(last.observations) : \A k \in 1..Len(last.observations) :
         j < k =>
           /\ StationIndexOf(last.observations[j].station_id)
                <= StationIndexOf(last.observations[k].station_id)
           /\ last.observations[j].station_id = last.observations[k].station_id
                => last.observations[j].timestamp[2] < last.observations[k].timestamp[2]

\* two stations with observations, one of them over two days
C17_Witness ==
  /\ last.op = "generate_weather_observations"
  /\ last.raised = None
  /\ last.args.days >= 2
  /\ \E j \in 1..Len(last.observations) : \E k \in 1..Len(last.observations) :
       /\ last.observations[j].station_id # last.observations[k].station_id
  /\ \E j \in 1..Len(last.observations) : \E k \in 1..Len(last.observations) :
       /\ last.observations[j].station_id = last.observations[k].station_id
       /\ last.observations[k].timestamp[2] >= last.observations[j].timestamp[2] + 24

\* what create_fire_records makes of station si processed on its own, with
\* the draws it has in the run: its days from number di on
RECURSIVE FireRecordsAlone(_, _, _)
FireRecordsAlone(acc, si, di) ==
  IF di >= last.args.days \/ acc.raised # None THEN acc
  ELSE FireRecordsAlone(
         fire_step(acc, last.stations[si],
                   (clock - 1) - timedelta_days(last.args.days) + timedelta_days(di),
                   si, di, last.args.seed, clock - 1),
         si, di + 1)

\* the fire records of the last run that station si ignited
FireRecordsOfStation(si) ==
  SelectSeq(last.fires, LAMBDA f : f.city = last.stations[si].city)

\* C18: generation for a station does not depend on the other stations.
\* The fire records a run emits for a station, fire_id included, are the
\* records the same station gives with the same draws when it is processed
\* on its own.
C18_FireRecordsIndependentOfOtherStations ==
  (last.op = "create_fire_records" /\ last.raised = None)
    => \A si \in 1..Len(last.stations) :
         FireRecordsOfStation(si)
           = FireRecordsAlone([raised |-> None, fire_records |-> <<>>,
                               fire_id_counter |-> 1], si, 0).fire_records

\* every row of bag a is in bag b at least as often
BagWithin(a, b) ==
  \A r \in BagToSet(a) : r \in BagToSet(b) /\ b[r] >= a[r]

\* C19: observations and fire records are append-only.  A generation run of
\* either generator leaves every row the observation table and the
\* fire-record table held before it in the table, unchanged, whichever of
\* its store calls fail.
C19_RunsOnlyAppend ==
  [][/\ BagWithin(weather_observations, weather_observations')
     /\ BagWithin(fire_records, fire_records')]_vars

\* the observation table holds rows of two runs
C19_Witness ==
  /\ clock = StartClock + 2
  /\ \E r \in BagToSet(weather_observations) : \E q \in BagToSet(weather_observations) :
       r.observation_id[2] # q.observation_id[2]

\* C20: station records are stable across runs.  When the station command
\* is run again with every store call of both runs succeeding, every
\* station row persisted before the run is there after it with the same
\* station_id, name, location, elevation, country, state, city, active flag
\* and created_at; only updated_at may differ.
C20_StationRowsStableAcrossRuns ==
  [][(/\ last.op = "stations" /\ last'.op = "stations"
      /\ AllCallsOk(last.calls) /\ AllCallsOk(last'.calls)
      /\ last.raised = None /\ last'.raised = None)
     => \A r \in BagToSet(weather_stations) :
          \E q \in BagToSet(weather_stations') :
            [q EXCEPT !.updated_at = r.updated_at] = r]_vars

(***************************************************************************)
(* Claims C21 to C30.                                                      *)
(***************************************************************************)
\* the number of copies of rows of table st whose station_id is id
RowsOfId(st, id) == BagCardinality(BagFilter(LAMBDA r : r.station_id = id, st))

\* the number of copies of rows of table st with this station_id and created_at
RowsOfIdCreatedAt(st, id, created_at) ==
  BagCardinality(BagFilter(LAMBDA r : r.station_id = id /\ r.created_at = created_at, st))

\* the stations whose UPDATE statement the operation has run: the updates
\* are issued in the order of updated_stations and stop at the first failure
UpdatedBy(l) ==
  SubSeq(l.updated_stations, 1,
         Cardinality({i \in 1..Len(l.calls) :
                        l.calls[i][1] = "query:update" /\ l.calls[i][3] = "ok"}))

\* the station row has the generated values of station s, updated at now
OverwrittenWith(r, s, now) ==
  /\ r.station_name = s.station_name
  /\ r.location = <<st_geogfromtext(s.location).lon, st_geogfromtext(s.location).lat>>
  /\ r.elevation_meters = s.elevation_meters
  /\ r.country = s.country
  /\ r.state_province = s.state_province
  /\ r.city = s.city
  /\ r.active = s.active
  /\ r.updated_at = <<now>>

\* C21: the frame of an update.  In a station command, for every station
\* whose UPDATE has run, every row of that station_id has afterwards the
\* generated name, location, elevation, country, state_province, city and
\* active flag and the time of the run as updated_at; the station_id has as
\* many rows as before, with the same created_at values; and every row the
\* table held under a station_id that was not updated is still there,
\* unchanged, as often as before.
C21_UpdateOverwritesOnlyItsRow ==
  [][(last'.op = "stations" /\ last'.updated_stations # <<>>)
     => /\ \A i \in 1..Len(UpdatedBy(last')) :
             /\ \A r \in BagToSet(weather_stations') :
                  r.station_id = UpdatedBy(last')[i].station_id
                    => OverwrittenWith(r, UpdatedBy(last')[i], clock)
             /\ RowsOfId(weather_stations', UpdatedBy(last')[i].station_id)
                  = RowsOfId(weather_stations, UpdatedBy(last')[i].station_id)
             /\ \A q \in BagToSet(weather_stations) :
                  RowsOfIdCreatedAt(weather_stations', UpdatedBy(last')[i].station_id,
                                    q.created_at)
                    = RowsOfIdCreatedAt(weather_stations, UpdatedBy(last')[i].station_id,
                                        q.created_at)
        /\ \A q \in BagToSet(weather_stations) :
             (\A i \in 1..Len(UpdatedBy(last')) :
                UpdatedBy(last')[i].station_id # q.station_id)
               => CopiesIn(q, weather_stations') = CopiesIn(q, weather_stations)]_vars

\* the second run has updated one station of the two in the table: its row
\* has a new updated_at, the other row has not
C21_Witness ==
  /\ last.op = "stations"
  /\ Len(UpdatedBy(last)) = 1
  /\ \E r \in BagToSet(weather_stations) :
       /\ r.station_id = last.updated_stations[1].station_id
       /\ r.updated_at = <<clock - 1>>
       /\ r.created_at # r.updated_at
  /\ \E q \in BagToSet(weather_stations) :
       /\ q.station_id # last.updated_stations[1].station_id
       /\ q.updated_at # <<clock - 1>>

\* C22: the fire weather multiplier is bounded and monotone.  For all
\* conditions the multiplier is at least 1 and at most 10 (in 1/10000:
\* 10000 and 100000), and conditions that are at least as hot, as windy and
\* as long without rain, and at most as humid, never give a lower one.
C22_WeatherMultiplierBoundedMonotone ==
  last.op = "_calculate_fire_weather_risk" =>
    /\ last.returned.risk_multiplier >= 10000
    /\ last.returned.risk_multiplier <= 100000
    /\ \A temp \in RiskTempInputs, humidity \in RiskHumidityInputs,
          wind_speed \in RiskWindInputs, days_since_rain \in RiskRainInputs :
         (/\ temp >= last.returned.temp
          /\ humidity <= last.returned.humidity
          /\ wind_speed >= last.returned.wind_speed
          /\ days_since_rain >= last.returned.days_since_rain)
           => risk_multiplier_of(temp, humidity, wind_speed, days_since_rain)
                >= last.returned.risk_multiplier

\* conditions whose factors multiply to more than 10 (1.5 * 2.0 * 1.3 * 1.4 *
\* 2.0 = 10.92) give 10
C22_Witness ==
  /\ last.op = "_calculate_fire_weather_risk"
  /\ last.returned.temp = 300001
  /\ last.returned.humidity = 4000
  /\ last.returned.wind_speed = 1501
  /\ last.returned.days_since_rain = 0
  /\ last.returned.risk_multiplier = 100000

\* C23: the ignition value is a probability.  For every region, month and
\* weather multiplier, base_risk * seasonal_multiplier * weather_multiplier
\* is at least 0 and at most 1 (in 1/10000000: 10000000).
C23_IgnitionValueIsProbability ==
  last.op = "daily_fire_risk" =>
    /\ last.returned.daily_fire_risk >= 0
    /\ last.returned.daily_fire_risk <= 10000000

\* the start of the range of the last observation run: now - timedelta(days)
RangeStartOfLast == (clock - 1) - timedelta_days(last.args.days)

\* C24: the sampled hours stay within the day.  Every observation of a run
\* of either observation generator was sampled at an hour h of its
\* station-day with 0 <= h < 24, its timestamp lies in the requested range
\* [start, end), and its timestamp is on the calendar day of the
\* station-day it was sampled for.
C24_SampledHoursWithinDay ==
  last.op \in {"generate_weather_observations", "create_observations"} =>
    \A k \in 1..Len(last.observations) :
      /\ last.observations[k].observation_id[6] >= 0
      /\ last.observations[k].observation_id[6] < 24
      /\ last.observations[k].timestamp[2] >= RangeStartOfLast
      /\ last.observations[k].timestamp[2] < clock - 1
      /\ date_of(last.observations[k].timestamp[2])
           = date_of(RangeStartOfLast
                       + timedelta_days(last.observations[k].observation_id[5]))

\* the temperature, in 1/10000 degree, is within the declared range of the
\* condition widened by 2 degrees on each side
WithinWidenedRange(temp, condition) ==
  /\ temp >= weather_conditions[condition].temp_lo * 10000 - 20000
  /\ temp <= weather_conditions[condition].temp_hi * 10000 + 20000

\* C25: temperature is reconciled with the condition.  Every observation
\* that generate_weather_observations or the historical command emits has a
\* recorded temperature within the declared temp_range of its condition
\* widened by 2 degrees on each side.
C25_TemperatureReconciledWithCondition ==
  last.op \in {"generate_weather_observations", "historical", "all"} =>
    \A k \in 1..Len(last.observations) :
      WithinWidenedRange(last.observations[k].temperature_celsius,
                         last.observations[k].weather_condition)

\* C26: only active stations produce observations.  No observation that an
\* observation generator emits for a station list has the station_id of a
\* station of the list whose active flag is false.
C26_OnlyActiveStationsObserved ==
  last.op \in {"generate_weather_observations", "create_observations"} =>
    \A k \in 1..Len(last.observations) : \A i \in 1..Len(last.stations) :
      ~last.stations[i].active
        => last.observations[k].station_id # last.stations[i].station_id

\* C27: interleaved upserts leave no duplicate.  However the steps of the
\* station upserts that run against one store interleave, no station_id
\* ever has more than one row in the station table.
C27_InterleavedUpsertsNoDuplicate ==
  \A id \in select_station_ids(weather_stations) : RowsOfId(weather_stations, id) <= 1

\* C28: referential integrity of a full run.  After
\* generate_and_insert_all_data, whichever of its store calls failed, every
\* row of the observation table has the station_id of a row of the station
\* table.
C28_ObservationsReferencePersistedStations ==
  last.op = "all" =>
    \A r \in BagToSet(weather_observations) :
      r.station_id \in select_station_ids(weather_stations)

\* C29: clearing never leaves an observation behind a deleted station.  In
\* every step of a clear operation, also one whose DELETE fails, every
\* observation row that is in the store after the step and referenced a
\* persisted station before it still references a persisted station.
C29_ClearNeverOrphansObservations ==
  [][last'.op \in ClearOps
     => \A r \in BagToSet(weather_observations') :
          r.station_id \in select_station_ids(weather_stations)
            => r.station_id \in select_station_ids(weather_stations')]_vars

\* the observations are deleted, the DELETE of the stations has failed and
\* the stations are still there
C29_Witness ==
  /\ last.op \in ClearOps
  /\ Len(last.calls) = 2
  /\ last.calls[1] = <<"query:delete", "weather_observations", "ok">>
  /\ last.calls[2][3] # "ok"
  /\ last.caught # None
  /\ weather_observations = EmptyBag
  /\ weather_stations # EmptyBag

\* the days the day loop of the last run visits for a station of this
\* elevation
DaysVisited(elevation) ==
  Len(base_temps_from_day(elevation, RangeStartOfLast, clock - 1))

\* the last run returned, and visited exactly the requested days for each
\* active station
ReturnedAfterRequestedDays ==
  /\ last.raised = None
  /\ \A i \in 1..Len(last.stations) :
       last.stations[i].active
         => DaysVisited(last.stations[i].elevation_meters) = last.args.days
  /\ \A k \in 1..Len(last.observations) :
       last.observations[k].observation_id[5] \in 0..(last.args.days - 1)

\* C30, as claimed: observation generation returns for every input.  For
\* every cadence of 1..24, every day count of at least 0 and every station
\* list, generate_weather_observations returns without raising, after
\* visiting exactly the requested days for each active station.
C30_GenerationReturnsForEveryInput ==
  (/\ last.op = "generate_weather_observations"
   /\ last.args.cadence \in 1..24
   /\ last.args.days >= 0)
    => ReturnedAfterRequestedDays

\* C30, amended: the same for every day count of at least 0 for which the
\* start of the range, now - timedelta(days), is a datetime (not before
\* datetime.min).
C30_GenerationReturnsWithinDatetimeRange ==
  (/\ last.op = "generate_weather_observations"
   /\ last.args.cadence \in 1..24
   /\ last.args.days >= 0
   /\ datetime_sub_raises(clock - 1, timedelta_days(last.args.days)) = None)
    => ReturnedAfterRequestedDays

\* a run of two days at cadence 24 over two active stations, one of them
\* with a location that does not parse, with an observation of the second day
C30_Witness ==
  /\ last.op = "generate_weather_observations"
  /\ last.args.cadence = 24
  /\ last.args.days = 2
  /\ last.raised = None
  /\ Len(last.stations) = 2
  /\ \A i \in 1..2 : last.stations[i].active
  /\ \E i \in 1..2 : obs_parse_location(last.stations[i].location).fallback
  /\ \E k \in 1..Len(last.observations) : last.observations[k].observation_id[5] = 1
=============================================================================
